---------------------------- MODULE Spec2Model ----------------------------
(***************************************************************************)
(* Frame codec of datapacklib: Encoder and Decoder of the framed,          *)
(* CRC-protected, preamble-synchronised colour-coded wire format, in the   *)
(* fixed-capacity variant (datapacklib.h with StaticVector, valid_ flag    *)
(* and configure()).                                                        *)
(*                                                                         *)
(* Representation.  A LightLevel is one of the strings in LightLevels.     *)
(* A SignalChange is a record [level, duration].  A StaticVector is the    *)
(* sequence of its first size_ elements; its capacity is a parameter of    *)
(* push_back/append.  allowedDriftFraction is held as an integer number of *)
(* hundredths (20 stands for 0.20); the configurations and durations used  *)
(* here are chosen so that no floating-point comparison of the source sits *)
(* on a rounding boundary, so the integer arithmetic below gives the same  *)
(* results as the double arithmetic of the source.                         *)
(***************************************************************************)
EXTENDS Integers, Sequences, FiniteSets, TLC

VARIABLES
    enc,    \* the Encoder object: [config_, valid_]
    out,    \* the SignalBuffer handed to Encoder::encode
    ret,    \* value returned by the last configure()/encode() call
    dec,    \* the Decoder object, with the log of callback invocations
    wire,   \* signal changes on the channel, not yet fed to the decoder
    call,   \* the last public call: its name and what it saw before acting
    sc      \* the scenario that drives the calls (payloads, position)

vars == <<enc, out, ret, dec, wire, call, sc>>

-----------------------------------------------------------------------------
(* Program constants *)

DATAPACKLIB_MAX_PAYLOAD == 512

DATAPACKLIB_MAX_SIGNAL_CHANGES == ((DATAPACKLIB_MAX_PAYLOAD + 9) * 8) + 32

FrameCapacity == DATAPACKLIB_MAX_PAYLOAD + 9

DriftDen == 100

LightLevels == {"Off", "White", "Red", "Green", "Blue"}

States == {"Idle", "WaitSpace", "ReadMark", "ReadSpace"}

DefaultConfig ==
    [unitDurationMicros |-> 600,
     preambleMarkUnits |-> 16,
     preambleSpaceUnits |-> 8,
     symbolMarkUnits |-> 1,
     separatorUnits |-> 1,
     frameGapUnits |-> 12,
     preambleColor |-> "White",
     allowedDriftFraction |-> 20,
     maxPayloadBytes |-> DATAPACKLIB_MAX_PAYLOAD,
     magic |-> 50074,
     ender |-> 20906,
     version |-> 1]

ZeroStats ==
    [framesDecoded |-> 0,
     magicMismatches |-> 0,
     headerRejects |-> 0,
     lengthViolations |-> 0,
     crcFailures |-> 0,
     enderMismatches |-> 0,
     durationRejections |-> 0,
     markRejections |-> 0,
     truncatedFrames |-> 0]

CounterNames == DOMAIN ZeroStats

RejectionCounters == CounterNames \ {"framesDecoded"}

-----------------------------------------------------------------------------
(* Integer helpers *)

Abs(x) == IF x < 0 THEN -x ELSE x

Max(a, b) == IF a > b THEN a ELSE b

Min(a, b) == IF a < b THEN a ELSE b

RECURSIVE XorBits(_, _, _)
XorBits(a, b, n) ==
    IF n = 0 THEN 0
    ELSE ((a + b) % 2) + 2 * XorBits(a \div 2, b \div 2, n - 1)

Xor16(a, b) == XorBits(a, b, 16)

-----------------------------------------------------------------------------
(* StaticVector *)

push_back(v, value, Capacity) ==
    IF Len(v) >= Capacity
    THEN [ok |-> FALSE, v |-> v]
    ELSE [ok |-> TRUE, v |-> Append(v, value)]

append_fillsUp(v, data, count, Capacity) ==
    IF Len(v) + count > Capacity
    THEN [ok |-> FALSE, v |-> v \o SubSeq(data, 1, Capacity - Len(v))]
    ELSE [ok |-> TRUE, v |-> v \o SubSeq(data, 1, count)]

append(v, data, count, Capacity) ==
    IF Len(v) + count > Capacity
    THEN [ok |-> FALSE, v |-> v]
    ELSE [ok |-> TRUE, v |-> v \o SubSeq(data, 1, count)]

clear(v) == <<>>

-----------------------------------------------------------------------------
(* detail:: symbol codec and CRC *)

symbolToColor(symbol) ==
    CASE symbol % 4 = 0 -> "Red"
      [] symbol % 4 = 1 -> "Green"
      [] symbol % 4 = 2 -> "Blue"
      [] OTHER -> "White"

colorToSymbol_offIsRed(level) ==
    CASE level = "Green" -> [ok |-> TRUE, symbol |-> 1]
      [] level = "Blue" -> [ok |-> TRUE, symbol |-> 2]
      [] level = "White" -> [ok |-> TRUE, symbol |-> 3]
      [] OTHER -> [ok |-> TRUE, symbol |-> 0]

\* colorToSymbol: ok is the returned bool, symbol the out-parameter, which is
\* left as the caller initialised it (0) when the level has no symbol.
colorToSymbol(level) ==
    CASE level = "Red" -> [ok |-> TRUE, symbol |-> 0]
      [] level = "Green" -> [ok |-> TRUE, symbol |-> 1]
      [] level = "Blue" -> [ok |-> TRUE, symbol |-> 2]
      [] level = "White" -> [ok |-> TRUE, symbol |-> 3]
      [] OTHER -> [ok |-> FALSE, symbol |-> 0]

RECURSIVE CrcBits(_, _)
CrcBits(crc, bit) ==
    IF bit = 0 THEN crc
    ELSE CrcBits(IF crc >= 32768
                 THEN Xor16((crc * 2) % 65536, 4129)
                 ELSE (crc * 2) % 65536,
                 bit - 1)

\* The loop over the bytes i..size, in order.  The range is run as its two
\* halves, one after the other, and the CRC after the first half is
\* compared (it is never negative) so that it is a known value before the
\* second half starts: this keeps the evaluation depth small.
RECURSIVE CrcBytes(_, _, _, _)
CrcBytes(crc, data, i, size) ==
    IF i > size THEN crc
    ELSE IF i = size THEN CrcBits(Xor16(crc, data[i] * 256), 8)
    ELSE LET mid == (i + size) \div 2
             half == CrcBytes(crc, data, i, mid)
         IN  IF half >= 0 THEN CrcBytes(half, data, mid + 1, size) ELSE half

computeCrc16_zeroInit(data, size) == CrcBytes(0, data, 1, size)

computeCrc16(data, size) == CrcBytes(65535, data, 1, size)

-----------------------------------------------------------------------------
(* ProtocolConfig *)

tolerance_truncates(config, expectedUnits) ==
    LET fraction == IF config.allowedDriftFraction < 1
                    THEN 1 ELSE config.allowedDriftFraction
        tol == (expectedUnits * fraction) \div DriftDen
    IN  IF tol < 1 THEN 1 ELSE tol

tolerance(config, expectedUnits) ==
    LET fraction == IF config.allowedDriftFraction < 1
                    THEN 1 ELSE config.allowedDriftFraction
        tol == (2 * expectedUnits * fraction + DriftDen) \div (2 * DriftDen)
    IN  IF tol < 1 THEN 1 ELSE tol

validateConfig_noPayloadCheck(config) ==
    IF config.unitDurationMicros <= 0 THEN FALSE
    ELSE IF config.symbolMarkUnits <= 0 \/ config.separatorUnits <= 0 THEN FALSE
    ELSE IF config.preambleMarkUnits <= 0 \/ config.preambleSpaceUnits <= 0 THEN FALSE
    ELSE TRUE

validateConfig(config) ==
    IF config.unitDurationMicros <= 0 THEN FALSE
    ELSE IF config.symbolMarkUnits <= 0 \/ config.separatorUnits <= 0 THEN FALSE
    ELSE IF config.preambleMarkUnits <= 0 \/ config.preambleSpaceUnits <= 0 THEN FALSE
    ELSE IF config.maxPayloadBytes = 0
            \/ config.maxPayloadBytes > DATAPACKLIB_MAX_PAYLOAD THEN FALSE
    ELSE TRUE

-----------------------------------------------------------------------------
(* Encoder *)

Encoder_configure(config) ==
    [config_ |-> config, valid_ |-> validateConfig(config)]

serializeFrame_lengthLowFirst(config, payload, length) ==
    LET crc == computeCrc16(payload, length)
    IN  <<config.magic \div 256, config.magic % 256, config.version,
          length % 256, length \div 256,
          crc \div 256, crc % 256>>
        \o SubSeq(payload, 1, length)
        \o <<config.ender \div 256, config.ender % 256>>

\* The serialized frame built by encode() in its local StaticVector.
serializeFrame(config, payload, length) ==
    LET crc == computeCrc16(payload, length)
    IN  <<config.magic \div 256, config.magic % 256, config.version,
          length \div 256, length % 256,
          crc \div 256, crc % 256>>
        \o SubSeq(payload, 1, length)
        \o <<config.ender \div 256, config.ender % 256>>

symbolAt_lowFirst(byte, shift) ==
    CASE shift = 6 -> byte % 4
      [] shift = 4 -> (byte \div 4) % 4
      [] shift = 2 -> (byte \div 16) % 4
      [] OTHER -> (byte \div 64) % 4

\* The symbol taken from a frame byte at shift 6, 4, 2 or 0.
symbolAt(byte, shift) ==
    CASE shift = 6 -> (byte \div 64) % 4
      [] shift = 4 -> (byte \div 16) % 4
      [] shift = 2 -> (byte \div 4) % 4
      [] OTHER -> byte % 4

\* The calls writer.emit(level, units) made by encode(), in order: the
\* preamble mark and space, a mark and a separator for each symbol of each
\* frame byte at shifts 6, 4, 2, 0, and the trailing gap.
emitCalls(config, frame) ==
    LET n == 8 * Len(frame) + 3
    IN  [j \in 1..n |->
            IF j = 1
            THEN [level |-> config.preambleColor, units |-> config.preambleMarkUnits]
            ELSE IF j = 2
            THEN [level |-> "Off", units |-> config.preambleSpaceUnits]
            ELSE IF j = n
            THEN [level |-> "Off", units |-> config.frameGapUnits]
            ELSE LET k == j - 3
                     byte == frame[(k \div 8) + 1]
                     shift == 6 - 2 * ((k \div 2) % 4)
                 IN  IF k % 2 = 0
                     THEN [level |-> symbolToColor(symbolAt(byte, shift)),
                           units |-> config.symbolMarkUnits]
                     ELSE [level |-> "Off", units |-> config.separatorUnits]]

emitted(c) == c.units > 0

\* Writer::emit over a sequence of calls: a call with units <= 0 emits
\* nothing, each other call pushes (level, units * unitDuration), and the
\* first push on a full buffer clears the status, after which nothing more
\* is pushed.
emit(calls, unitDuration, Capacity) ==
    LET kept == SelectSeq(calls, emitted)
        m == Min(Len(kept), Capacity)
    IN  [buffer |-> [j \in 1..m |->
                        [level |-> kept[j].level,
                         duration |-> kept[j].units * unitDuration]],
         status |-> Len(kept) <= Capacity]

\* The pulse train of a serialized frame.
emitAll(config, frame, Capacity) ==
    emit(emitCalls(config, frame), config.unitDurationMicros, Capacity)

encodeInto_capExclusive(e, payload, length, outBuf, Capacity) ==
    IF ~e.valid_ THEN [ok |-> FALSE, out |-> outBuf]
    ELSE IF length >= e.config_.maxPayloadBytes \/ length >= DATAPACKLIB_MAX_PAYLOAD
    THEN [ok |-> FALSE, out |-> outBuf]
    ELSE LET frame == serializeFrame(e.config_, payload, length)
         IN  IF Len(frame) > FrameCapacity THEN [ok |-> FALSE, out |-> <<>>]
             ELSE LET w == emitAll(e.config_, frame, Capacity)
                  IN  IF ~w.status THEN [ok |-> FALSE, out |-> <<>>]
                      ELSE [ok |-> TRUE, out |-> w.buffer]

\* Encoder::encode(payload, length, out): [ok, out].  The early returns
\* leave the caller's buffer as it was; past them the buffer is cleared.
encodeInto(e, payload, length, outBuf, Capacity) ==
    IF ~e.valid_ THEN [ok |-> FALSE, out |-> outBuf]
    ELSE IF length > e.config_.maxPayloadBytes \/ length > DATAPACKLIB_MAX_PAYLOAD
    THEN [ok |-> FALSE, out |-> outBuf]
    ELSE LET frame == serializeFrame(e.config_, payload, length)
         IN  IF Len(frame) > FrameCapacity THEN [ok |-> FALSE, out |-> <<>>]
             ELSE LET w == emitAll(e.config_, frame, Capacity)
                  IN  IF ~w.status THEN [ok |-> FALSE, out |-> <<>>]
                      ELSE [ok |-> TRUE, out |-> w.buffer]

encode(e, payload, outBuf) ==
    encodeInto(e, payload, Len(payload), outBuf, DATAPACKLIB_MAX_SIGNAL_CHANGES)

-----------------------------------------------------------------------------
(* Decoder *)

reset_keepsAccumulator(d) ==
    [d EXCEPT !.state_ = "Idle",
              !.frameBuffer_ = <<>>,
              !.expectedPayloadLength_ = 0,
              !.payloadLengthKnown_ = FALSE,
              !.frameActive_ = FALSE]

reset(d) ==
    [d EXCEPT !.state_ = "Idle",
              !.frameBuffer_ = <<>>,
              !.currentByte_ = 0,
              !.bitsFilled_ = 0,
              !.expectedPayloadLength_ = 0,
              !.payloadLengthKnown_ = FALSE,
              !.pendingSymbol_ = 0,
              !.frameActive_ = FALSE]

setCallback(d, callback) == [d EXCEPT !.callback_ = callback]

configure_clearsStats(d, config) ==
    reset([d EXCEPT !.config_ = config,
                    !.valid_ = validateConfig(config),
                    !.stats_ = ZeroStats])

configure_noReset(d, config) ==
    [d EXCEPT !.config_ = config, !.valid_ = validateConfig(config)]

configure(d, config) ==
    reset([d EXCEPT !.config_ = config, !.valid_ = validateConfig(config)])

\* Decoder(callback, context, config): the member initialisers, then
\* configure(config).
Decoder_new(callback, config) ==
    configure([config_ |-> DefaultConfig,
               callback_ |-> callback,
               stats_ |-> ZeroStats,
               state_ |-> "Idle",
               frameBuffer_ |-> <<>>,
               currentByte_ |-> 0,
               bitsFilled_ |-> 0,
               expectedPayloadLength_ |-> 0,
               payloadLengthKnown_ |-> FALSE,
               pendingSymbol_ |-> 0,
               frameActive_ |-> FALSE,
               valid_ |-> FALSE,
               delivered |-> <<>>],
              config)

bump_setsOne(d, counter) == [d EXCEPT !.stats_[counter] = 1]

bump(d, counter) == [d EXCEPT !.stats_[counter] = @ + 1]

startFrame(d) ==
    [d EXCEPT !.frameBuffer_ = <<>>,
              !.currentByte_ = 0,
              !.bitsFilled_ = 0,
              !.expectedPayloadLength_ = 0,
              !.payloadLengthKnown_ = FALSE,
              !.pendingSymbol_ = 0,
              !.frameActive_ = TRUE,
              !.state_ = "ReadMark"]

abortFrame_noCount(d) == reset(d)

abortFrame(d) ==
    reset(IF d.frameActive_ THEN bump(d, "truncatedFrames") ELSE d)

matches_exact(config, units, expected) == units = expected

matches(config, units, expected) ==
    Abs(units - expected) <= tolerance(config, expected)

decodeSymbol_anyLength(config, units, level) == colorToSymbol(level)

decodeSymbol(config, units, level) ==
    IF ~matches(config, units, config.symbolMarkUnits)
    THEN [ok |-> FALSE, symbol |-> 0]
    ELSE colorToSymbol(level)

\* The callback call of finalizeFrame: a registered callback receives the
\* payload bytes and their length; the log keeps what it was given.
invokeCallback(d, payload) ==
    IF d.callback_ # "null"
    THEN [d EXCEPT !.delivered = Append(@, [cb |-> d.callback_, data |-> payload])]
    ELSE d

finalizeFrame_noCrcCheck(d) ==
    LET buf == d.frameBuffer_
        frameSize == Len(buf)
    IN  IF frameSize < 9 THEN abortFrame(bump(d, "headerRejects"))
        ELSE IF buf[1] * 256 + buf[2] # d.config_.magic
        THEN abortFrame(bump(d, "magicMismatches"))
        ELSE IF buf[3] # d.config_.version
        THEN abortFrame(bump(d, "headerRejects"))
        ELSE LET payloadLength == buf[4] * 256 + buf[5]
             IN  IF payloadLength > d.config_.maxPayloadBytes
                 THEN abortFrame(bump(d, "lengthViolations"))
                 ELSE IF frameSize # 9 + payloadLength
                 THEN abortFrame(bump(d, "truncatedFrames"))
                 ELSE IF buf[frameSize - 1] * 256 + buf[frameSize] # d.config_.ender
                 THEN abortFrame(bump(d, "enderMismatches"))
                 ELSE reset(bump(invokeCallback(d, SubSeq(buf, 8, 7 + payloadLength)),
                                 "framesDecoded"))

finalizeFrame_versionCountsMagic(d) ==
    LET buf == d.frameBuffer_
        frameSize == Len(buf)
    IN  IF frameSize < 9 THEN abortFrame(bump(d, "headerRejects"))
        ELSE IF buf[1] * 256 + buf[2] # d.config_.magic \/ buf[3] # d.config_.version
        THEN abortFrame(bump(d, "magicMismatches"))
        ELSE LET payloadLength == buf[4] * 256 + buf[5]
                 expectedCrc == buf[6] * 256 + buf[7]
             IN  IF payloadLength > d.config_.maxPayloadBytes
                 THEN abortFrame(bump(d, "lengthViolations"))
                 ELSE IF frameSize # 9 + payloadLength
                 THEN abortFrame(bump(d, "truncatedFrames"))
                 ELSE IF buf[frameSize - 1] * 256 + buf[frameSize] # d.config_.ender
                 THEN abortFrame(bump(d, "enderMismatches"))
                 ELSE IF computeCrc16(SubSeq(buf, 8, 7 + payloadLength), payloadLength)
                         # expectedCrc
                 THEN abortFrame(bump(d, "crcFailures"))
                 ELSE reset(bump(invokeCallback(d, SubSeq(buf, 8, 7 + payloadLength)),
                                 "framesDecoded"))

finalizeFrame_crcBeforeEnder(d) ==
    LET buf == d.frameBuffer_
        frameSize == Len(buf)
    IN  IF frameSize < 9 THEN abortFrame(bump(d, "headerRejects"))
        ELSE IF buf[1] * 256 + buf[2] # d.config_.magic
        THEN abortFrame(bump(d, "magicMismatches"))
        ELSE IF buf[3] # d.config_.version
        THEN abortFrame(bump(d, "headerRejects"))
        ELSE LET payloadLength == buf[4] * 256 + buf[5]
                 expectedCrc == buf[6] * 256 + buf[7]
             IN  IF payloadLength > d.config_.maxPayloadBytes
                 THEN abortFrame(bump(d, "lengthViolations"))
                 ELSE IF frameSize # 9 + payloadLength
                 THEN abortFrame(bump(d, "truncatedFrames"))
                 ELSE IF computeCrc16(SubSeq(buf, 8, 7 + payloadLength), payloadLength)
                         # expectedCrc
                 THEN abortFrame(bump(d, "crcFailures"))
                 ELSE IF buf[frameSize - 1] * 256 + buf[frameSize] # d.config_.ender
                 THEN abortFrame(bump(d, "enderMismatches"))
                 ELSE reset(bump(invokeCallback(d, SubSeq(buf, 8, 7 + payloadLength)),
                                 "framesDecoded"))

finalizeFrame(d) ==
    LET buf == d.frameBuffer_
        frameSize == Len(buf)
    IN  IF frameSize < 9 THEN abortFrame(bump(d, "headerRejects"))
        ELSE IF buf[1] * 256 + buf[2] # d.config_.magic
        THEN abortFrame(bump(d, "magicMismatches"))
        ELSE IF buf[3] # d.config_.version
        THEN abortFrame(bump(d, "headerRejects"))
        ELSE LET payloadLength == buf[4] * 256 + buf[5]
                 expectedCrc == buf[6] * 256 + buf[7]
             IN  IF payloadLength > d.config_.maxPayloadBytes
                 THEN abortFrame(bump(d, "lengthViolations"))
                 ELSE IF frameSize # 9 + payloadLength
                 THEN abortFrame(bump(d, "truncatedFrames"))
                 ELSE IF buf[frameSize - 1] * 256 + buf[frameSize] # d.config_.ender
                 THEN abortFrame(bump(d, "enderMismatches"))
                 ELSE IF computeCrc16(SubSeq(buf, 8, 7 + payloadLength), payloadLength)
                         # expectedCrc
                 THEN abortFrame(bump(d, "crcFailures"))
                 ELSE reset(bump(invokeCallback(d, SubSeq(buf, 8, 7 + payloadLength)),
                                 "framesDecoded"))

handleSymbol_noLengthCheck(d, symbol) ==
    LET d1 == [d EXCEPT !.currentByte_ = (d.currentByte_ * 4 + (symbol % 4)) % 256,
                        !.bitsFilled_ = d.bitsFilled_ + 2]
    IN  IF d1.bitsFilled_ # 8 THEN d1
        ELSE LET r == push_back(d1.frameBuffer_, d1.currentByte_, FrameCapacity)
             IN  IF ~r.ok THEN abortFrame(d1)
                 ELSE LET d2 == [d1 EXCEPT !.frameBuffer_ = r.v,
                                           !.currentByte_ = 0,
                                           !.bitsFilled_ = 0]
                          frameSize == Len(r.v)
                          d3 == IF frameSize = 5
                                THEN [d2 EXCEPT !.expectedPayloadLength_ =
                                                    r.v[4] * 256 + r.v[5],
                                                !.payloadLengthKnown_ = TRUE]
                                ELSE d2
                      IN  IF ~d3.payloadLengthKnown_ THEN d3
                          ELSE IF frameSize > 9 + d3.expectedPayloadLength_
                          THEN abortFrame(d3)
                          ELSE IF frameSize = 9 + d3.expectedPayloadLength_
                          THEN finalizeFrame(d3)
                          ELSE d3

handleSymbol(d, symbol) ==
    LET d1 == [d EXCEPT !.currentByte_ = (d.currentByte_ * 4 + (symbol % 4)) % 256,
                        !.bitsFilled_ = d.bitsFilled_ + 2]
    IN  IF d1.bitsFilled_ # 8 THEN d1
        ELSE LET r == push_back(d1.frameBuffer_, d1.currentByte_, FrameCapacity)
             IN  IF ~r.ok THEN abortFrame(d1)
                 ELSE LET d2 == [d1 EXCEPT !.frameBuffer_ = r.v,
                                           !.currentByte_ = 0,
                                           !.bitsFilled_ = 0]
                          frameSize == Len(r.v)
                          d3 == IF frameSize = 5
                                THEN [d2 EXCEPT !.expectedPayloadLength_ =
                                                    r.v[4] * 256 + r.v[5],
                                                !.payloadLengthKnown_ = TRUE]
                                ELSE d2
                      IN  IF frameSize = 5
                             /\ d3.expectedPayloadLength_ > d3.config_.maxPayloadBytes
                          THEN abortFrame(bump(d3, "lengthViolations"))
                          ELSE IF ~d3.payloadLengthKnown_ THEN d3
                          ELSE IF frameSize > 9 + d3.expectedPayloadLength_
                          THEN abortFrame(d3)
                          ELSE IF frameSize = 9 + d3.expectedPayloadLength_
                          THEN finalizeFrame(d3)
                          ELSE d3

quantize_truncates(duration, unitDuration) == duration \div unitDuration

\* units = (long)(ratio + 0.5) for a positive duration and unit.
quantize(duration, unitDuration) ==
    (2 * duration + unitDuration) \div (2 * unitDuration)

\* error > driftLimit, with error = |ratio - units| and
\* driftLimit = max(allowedDriftFraction, 0.01), cleared of denominators.
invalidTiming(config, duration, units) ==
    \/ units <= 0
    \/ Abs(duration - units * config.unitDurationMicros) * DriftDen
         > Max(config.allowedDriftFraction, 1) * config.unitDurationMicros

\* The re-arm that follows every abortFrame() in feed: "if (level ==
\* preambleColor && matches(units, preambleUnits)) state_ = WaitSpace".
tryArmPreamble_never(d, level, units) == d

tryArmPreamble(d, level, units) ==
    IF level = d.config_.preambleColor
       /\ matches(d.config_, units, d.config_.preambleMarkUnits)
    THEN [d EXCEPT !.state_ = "WaitSpace"]
    ELSE d

feed_countsNonPositive(d, change) ==
    IF ~d.valid_ THEN d
    ELSE IF change.duration <= 0
    THEN tryArmPreamble(abortFrame(bump(d, "durationRejections")),
                        change.level, 0)
    ELSE
    LET units == quantize(change.duration, d.config_.unitDurationMicros)
        level == change.level
        isPreamble == level = d.config_.preambleColor
                      /\ matches(d.config_, units, d.config_.preambleMarkUnits)
    IN  IF invalidTiming(d.config_, change.duration, units)
        THEN tryArmPreamble(abortFrame(bump(d, "durationRejections")), level, units)
        ELSE CASE d.state_ = "Idle" ->
                    IF isPreamble THEN [d EXCEPT !.state_ = "WaitSpace"] ELSE d
               [] d.state_ = "WaitSpace" ->
                    IF level = "Off"
                       /\ matches(d.config_, units, d.config_.preambleSpaceUnits)
                    THEN startFrame(d)
                    ELSE IF isPreamble THEN [d EXCEPT !.state_ = "WaitSpace"]
                    ELSE tryArmPreamble(abortFrame(d), level, units)
               [] d.state_ = "ReadMark" ->
                    IF level = "Off"
                    THEN tryArmPreamble(abortFrame(bump(d, "markRejections")),
                                        level, units)
                    ELSE LET s == decodeSymbol(d.config_, units, level)
                         IN  IF ~s.ok
                             THEN tryArmPreamble(
                                      abortFrame(bump(d, "markRejections")),
                                      level, units)
                             ELSE [d EXCEPT !.pendingSymbol_ = s.symbol,
                                            !.state_ = "ReadSpace"]
               [] d.state_ = "ReadSpace" ->
                    IF level # "Off"
                    THEN tryArmPreamble(abortFrame(bump(d, "durationRejections")),
                                        level, units)
                    ELSE IF ~matches(d.config_, units, d.config_.separatorUnits)
                            /\ units < d.config_.separatorUnits
                    THEN tryArmPreamble(abortFrame(bump(d, "durationRejections")),
                                        level, units)
                    ELSE LET h == handleSymbol(d, d.pendingSymbol_)
                         IN  IF h.state_ = "ReadSpace"
                             THEN [h EXCEPT !.state_ = "ReadMark"]
                             ELSE h

feed(d, change) ==
    IF ~d.valid_ \/ change.duration <= 0 THEN d
    ELSE
    LET units == quantize(change.duration, d.config_.unitDurationMicros)
        level == change.level
        isPreamble == level = d.config_.preambleColor
                      /\ matches(d.config_, units, d.config_.preambleMarkUnits)
    IN  IF invalidTiming(d.config_, change.duration, units)
        THEN tryArmPreamble(abortFrame(bump(d, "durationRejections")), level, units)
        ELSE CASE d.state_ = "Idle" ->
                    IF isPreamble THEN [d EXCEPT !.state_ = "WaitSpace"] ELSE d
               [] d.state_ = "WaitSpace" ->
                    IF level = "Off"
                       /\ matches(d.config_, units, d.config_.preambleSpaceUnits)
                    THEN startFrame(d)
                    ELSE IF isPreamble THEN [d EXCEPT !.state_ = "WaitSpace"]
                    ELSE tryArmPreamble(abortFrame(d), level, units)
               [] d.state_ = "ReadMark" ->
                    IF level = "Off"
                    THEN tryArmPreamble(abortFrame(bump(d, "markRejections")),
                                        level, units)
                    ELSE LET s == decodeSymbol(d.config_, units, level)
                         IN  IF ~s.ok
                             THEN tryArmPreamble(
                                      abortFrame(bump(d, "markRejections")),
                                      level, units)
                             ELSE [d EXCEPT !.pendingSymbol_ = s.symbol,
                                            !.state_ = "ReadSpace"]
               [] d.state_ = "ReadSpace" ->
                    IF level # "Off"
                    THEN tryArmPreamble(abortFrame(bump(d, "durationRejections")),
                                        level, units)
                    ELSE IF ~matches(d.config_, units, d.config_.separatorUnits)
                            /\ units < d.config_.separatorUnits
                    THEN tryArmPreamble(abortFrame(bump(d, "durationRejections")),
                                        level, units)
                    ELSE LET h == handleSymbol(d, d.pendingSymbol_)
                         IN  IF h.state_ = "ReadSpace"
                             THEN [h EXCEPT !.state_ = "ReadMark"]
                             ELSE h

-----------------------------------------------------------------------------
(* Bounds and input sets *)

MaxPayloadLen == 2

PayloadBytes == {0, 72, 105, 255}

RECURSIVE SeqsUpTo(_, _)
SeqsUpTo(S, n) ==
    IF n = 0 THEN {<<>>}
    ELSE LET shorter == SeqsUpTo(S, n - 1)
         IN  shorter \cup {Append(q, x) : q \in {r \in shorter : Len(r) = n - 1}, x \in S}

Payloads == SeqsUpTo(PayloadBytes, MaxPayloadLen)

\* Short units and a different colour, header constants and payload cap; no
\* trailing gap.
CompactConfig ==
    [unitDurationMicros |-> 4,
     preambleMarkUnits |-> 4,
     preambleSpaceUnits |-> 2,
     symbolMarkUnits |-> 1,
     separatorUnits |-> 1,
     frameGapUnits |-> 0,
     preambleColor |-> "Blue",
     allowedDriftFraction |-> 25,
     maxPayloadBytes |-> 1,
     magic |-> 258,
     ender |-> 65534,
     version |-> 2]

\* A preamble mark that is within the tolerance of a symbol mark.
ShortPreambleConfig ==
    [DefaultConfig EXCEPT !.preambleMarkUnits = 2, !.maxPayloadBytes = 2]

\* A preamble of two equal Off pulses.
OffPreambleConfig ==
    [DefaultConfig EXCEPT !.preambleColor = "Off", !.preambleMarkUnits = 8]

\* Drift fraction 1.0 and longer symbol pulses.
WideDriftConfig ==
    [DefaultConfig EXCEPT !.allowedDriftFraction = 100,
                          !.symbolMarkUnits = 2,
                          !.separatorUnits = 3]

ValidConfigs ==
    {DefaultConfig, CompactConfig, ShortPreambleConfig, OffPreambleConfig,
     WideDriftConfig}

InvalidConfigs ==
    {[DefaultConfig EXCEPT !.unitDurationMicros = 0],
     [DefaultConfig EXCEPT !.symbolMarkUnits = 0],
     [DefaultConfig EXCEPT !.separatorUnits = -1],
     [DefaultConfig EXCEPT !.preambleMarkUnits = 0],
     [DefaultConfig EXCEPT !.preambleSpaceUnits = 0],
     [DefaultConfig EXCEPT !.maxPayloadBytes = 0],
     [DefaultConfig EXCEPT !.maxPayloadBytes = DATAPACKLIB_MAX_PAYLOAD + 1]}

\* What a call saw before it acted.
CallRec(op, arg) ==
    [op |-> op, arg |-> arg, state |-> dec.state_, active |-> dec.frameActive_,
     valid |-> dec.valid_]

NoCall == [op |-> "new", arg |-> <<>>, state |-> "Idle", active |-> FALSE,
           valid |-> FALSE]

-----------------------------------------------------------------------------
(* Round trip: a fresh encoder and decoder of one configuration; the        *)
(* payload is encoded and the output is fed, in order, to the decoder.      *)

RT_Init ==
    \E c \in ValidConfigs, P \in Payloads :
        /\ Len(P) <= c.maxPayloadBytes
        /\ enc = Encoder_configure(c)
        /\ dec = Decoder_new("cb", c)
        /\ out = <<>>
        /\ ret = validateConfig(c)
        /\ wire = <<>>
        /\ call = NoCall
        /\ sc = [pc |-> "encode", P |-> P]

RT_Encode ==
    /\ sc.pc = "encode"
    /\ LET r == encode(enc, sc.P, out)
       IN  /\ out' = r.out
           /\ ret' = r.ok
           /\ wire' = IF r.ok THEN r.out ELSE <<>>
           /\ sc' = [sc EXCEPT !.pc = IF r.ok /\ r.out # <<>> THEN "feed" ELSE "done"]
    /\ call' = CallRec("encode", sc.P)
    /\ UNCHANGED <<enc, dec>>

RT_Feed ==
    /\ sc.pc = "feed"
    /\ wire # <<>>
    /\ dec' = feed(dec, Head(wire))
    /\ wire' = Tail(wire)
    /\ call' = CallRec("feed", Head(wire))
    /\ sc' = [sc EXCEPT !.pc = IF Tail(wire) = <<>> THEN "done" ELSE "feed"]
    /\ UNCHANGED <<enc, out, ret>>

RT_Next == RT_Encode \/ RT_Feed

SpecRoundTrip == RT_Init /\ [][RT_Next]_vars

\* C1: for every valid configuration and every payload P with
\* |P| <= maxPayloadBytes, once all of encode(P) has been fed to a fresh
\* decoder of the same configuration, the callback has been invoked exactly
\* once, with the bytes of P, and framesDecoded has gone from 0 to 1; before
\* the last symbol nothing has been delivered.
C1_RoundTrip ==
    /\ sc.pc = "done" =>
         /\ ret = TRUE
         /\ dec.delivered = <<[cb |-> "cb", data |-> sc.P]>>
         /\ dec.stats_.framesDecoded = 1
    /\ Len(dec.delivered) = dec.stats_.framesDecoded
    /\ Len(dec.delivered) <= 1

C1_Witness ==
    /\ sc.pc = "done"
    /\ Len(sc.P) >= 1
    /\ dec.config_ = DefaultConfig
    /\ dec.stats_.framesDecoded = 1
    /\ dec.delivered[1].data = sc.P

-----------------------------------------------------------------------------
(* Stream: one encoder and one decoder of the same valid configuration.    *)
(* Two payloads are encoded and fed whole, in order; before, between and   *)
(* after them the decoder is disturbed by noise pulses, by the first       *)
(* pulses of a frame that is then cut off, and by reset() calls.           *)

MaxNoise == 2

StreamBytes == {65, 66}

StreamPayloads == SeqsUpTo(StreamBytes, 1)

\* Pulses that are not a frame: the pulses of the wire format on their own,
\* a mark and a preamble mark half a unit too long, a pulse of no duration.
NoiseChanges(c) ==
    LET u == c.unitDurationMicros
    IN  {[level |-> c.preambleColor, duration |-> c.preambleMarkUnits * u],
         [level |-> "Off", duration |-> c.preambleSpaceUnits * u],
         [level |-> "Red", duration |-> c.symbolMarkUnits * u],
         [level |-> "Off", duration |-> c.separatorUnits * u],
         [level |-> "Green", duration |-> u \div 2],
         [level |-> c.preambleColor, duration |-> c.preambleMarkUnits * u + u \div 2],
         [level |-> "White", duration |-> 0]}

\* Numbers of leading pulses of a frame after which it may be cut off: in
\* the third byte, and just after the fifth byte, when the length is known.
CutPoints == {23, 42}

ST_Init ==
    \E c \in ValidConfigs, A \in StreamPayloads, B \in StreamPayloads,
       g \in BOOLEAN :
        /\ Len(A) <= c.maxPayloadBytes
        /\ Len(B) <= c.maxPayloadBytes
        /\ A # B
        /\ enc = Encoder_configure(c)
        /\ dec = Decoder_new("cb", c)
        /\ out = <<>>
        /\ ret = validateConfig(c)
        /\ wire = <<>>
        /\ call = NoCall
        /\ sc = [pc |-> "idle", frames |-> <<A, B>>, k |-> 0, noise |-> 0,
                 base |-> 0, from |-> "Idle", dropGap |-> g]

ST_Quiet == sc.pc \in {"idle", "fed"}

\* A noise pulse.
ST_Noise ==
    /\ ST_Quiet
    /\ sc.noise < MaxNoise
    /\ \E ch \in NoiseChanges(dec.config_) :
        /\ dec' = feed(dec, ch)
        /\ call' = CallRec("feed", ch)
    /\ sc' = [sc EXCEPT !.pc = "idle", !.noise = @ + 1]
    /\ UNCHANGED <<enc, out, ret, wire>>

\* The first n pulses of a frame arrive; the rest is lost.
ST_Cut ==
    /\ ST_Quiet
    /\ sc.noise < MaxNoise
    /\ \E Q \in StreamPayloads, n \in CutPoints :
        /\ Len(Q) <= enc.config_.maxPayloadBytes
        /\ wire' = SubSeq(encode(enc, Q, <<>>).out, 1, n)
    /\ call' = CallRec("cut", <<>>)
    /\ sc' = [sc EXCEPT !.pc = "partial", !.noise = @ + 1]
    /\ UNCHANGED <<enc, out, ret, dec>>

ST_FeedCut ==
    /\ sc.pc = "partial"
    /\ dec' = feed(dec, Head(wire))
    /\ wire' = Tail(wire)
    /\ call' = CallRec("feed", Head(wire))
    /\ sc' = [sc EXCEPT !.pc = IF Tail(wire) = <<>> THEN "idle" ELSE "partial"]
    /\ UNCHANGED <<enc, out, ret>>

ST_Reset ==
    /\ ST_Quiet
    /\ sc.noise < MaxNoise
    /\ dec' = reset(dec)
    /\ call' = CallRec("reset", <<>>)
    /\ sc' = [sc EXCEPT !.pc = "idle", !.noise = @ + 1]
    /\ UNCHANGED <<enc, out, ret, wire>>

\* The next payload is encoded and put on the channel, with or without
\* the trailing gap of the frame.
ST_Encode ==
    /\ ST_Quiet
    /\ sc.k < Len(sc.frames)
    /\ LET r == encode(enc, sc.frames[sc.k + 1], out)
           last == r.out[Len(r.out)]
           gapped == enc.config_.frameGapUnits > 0
       IN  /\ r.ok
           /\ out' = r.out
           /\ ret' = r.ok
           /\ wire' = IF sc.dropGap /\ gapped
                      THEN SubSeq(r.out, 1, Len(r.out) - 1)
                      ELSE r.out
    /\ call' = CallRec("encode", sc.frames[sc.k + 1])
    /\ sc' = [sc EXCEPT !.pc = "frame", !.k = @ + 1,
                         !.base = Len(dec.delivered), !.from = dec.state_]
    /\ UNCHANGED <<enc, dec>>

ST_Feed ==
    /\ sc.pc = "frame"
    /\ dec' = feed(dec, Head(wire))
    /\ wire' = Tail(wire)
    /\ call' = CallRec("feed", Head(wire))
    /\ sc' = [sc EXCEPT !.pc = IF Tail(wire) = <<>> THEN "fed" ELSE "frame"]
    /\ UNCHANGED <<enc, out, ret>>

ST_Next == ST_Noise \/ ST_Cut \/ ST_FeedCut \/ ST_Reset \/ ST_Encode \/ ST_Feed

SpecStream == ST_Init /\ [][ST_Next]_vars

\* The callback invocations since the current frame was put on the channel.
SinceBase == SubSeq(dec.delivered, sc.base + 1, Len(dec.delivered))

Delivery(P) == [cb |-> "cb", data |-> P]

\* The preamble mark of the configuration cannot be taken for anything else
\* by the decoder: it is a colour, and too long for a symbol mark.
PreambleDistinct(c) ==
    /\ c.preambleColor # "Off"
    /\ ~matches(c, c.preambleMarkUnits, c.symbolMarkUnits)

\* C2 as stated, for any valid configuration: with noise before, between
\* and after two encoded frames, both payloads are delivered and
\* framesDecoded ends at 2 or more.
C2_AnyConfig ==
    (sc.k = 2 /\ ST_Quiet) =>
        /\ dec.stats_.framesDecoded >= 2
        /\ dec.delivered = <<Delivery(sc.frames[1]), Delivery(sc.frames[2])>>

\* C2, amended: in a configuration whose preamble colour is not Off and
\* whose preambleMarkUnits is outside the tolerance of symbolMarkUnits,
\* with noise before, between and after two encoded frames, both payloads
\* are delivered, in order, and framesDecoded ends at 2 or more; in any
\* configuration a noise pulse never delivers a payload or changes
\* framesDecoded, and lowers no rejection counter.
C2_Final ==
    (sc.k = 2 /\ ST_Quiet /\ PreambleDistinct(dec.config_)) =>
        /\ dec.stats_.framesDecoded >= 2
        /\ dec.delivered = <<Delivery(sc.frames[1]), Delivery(sc.frames[2])>>

C2_NoiseStep ==
    (call'.op = "feed" /\ sc.pc # "frame") =>
        /\ dec'.stats_.framesDecoded = dec.stats_.framesDecoded
        /\ dec'.delivered = dec.delivered
        /\ \A n \in RejectionCounters : dec'.stats_[n] >= dec.stats_[n]

C2_NoiseResilience == []C2_Final /\ [][C2_NoiseStep]_vars

C2_Witness ==
    /\ sc.k = 2
    /\ sc.pc = "idle"
    /\ sc.noise >= 2
    /\ sc.from # "Idle"
    /\ dec.config_ = DefaultConfig
    /\ dec.stats_.framesDecoded = 2
    /\ dec.stats_.truncatedFrames >= 1
    /\ dec.stats_.durationRejections >= 1

\* C4 as stated: in every valid configuration, from every decoder state,
\* feeding all of encode(P) invokes the callback exactly once, with P.
C4_AnyConfig ==
    sc.pc = "fed" => SinceBase = <<Delivery(sc.frames[sc.k])>>

\* C4, amended: in every valid configuration whose preamble colour is not
\* Off and whose preambleMarkUnits is outside the tolerance of
\* symbolMarkUnits, from every decoder state reached by feed and reset
\* calls, feeding all of encode(P) invokes the callback exactly once during
\* those feeds, with P.
C4_Resync ==
    /\ (sc.pc = "fed" /\ PreambleDistinct(dec.config_)) =>
           SinceBase = <<Delivery(sc.frames[sc.k])>>
    /\ (sc.pc = "frame" /\ PreambleDistinct(dec.config_)) =>
           SinceBase \in {<<>>, <<Delivery(sc.frames[sc.k])>>}

C4_Witness ==
    /\ sc.pc = "fed"
    /\ sc.from = "ReadSpace"
    /\ PreambleDistinct(dec.config_)
    /\ dec.stats_.truncatedFrames >= 1
    /\ SinceBase = <<Delivery(sc.frames[sc.k])>>

\* C5: encode(A) followed at once by encode(B), with the trailing gap of
\* the first frame or without it, delivers A and then B, and
\* framesDecoded is 2.
C5_BackToBack ==
    (sc.k = 2 /\ sc.pc = "fed" /\ sc.noise = 0) =>
        /\ dec.delivered = <<Delivery(sc.frames[1]), Delivery(sc.frames[2])>>
        /\ dec.stats_.framesDecoded = 2

C5_Witness ==
    /\ sc.k = 2
    /\ sc.pc = "fed"
    /\ sc.noise = 0
    /\ sc.dropGap
    /\ dec.config_ = DefaultConfig
    /\ dec.stats_.framesDecoded = 2
    /\ dec.delivered[2].data = sc.frames[2]

-----------------------------------------------------------------------------
(* The programming interface: one encoder and one decoder, and any order   *)
(* of encode, configure, reset, setCallback and feed calls.  The pulses    *)
(* fed are noise pulses, or the pulses of an encoded frame put on the      *)
(* channel, where one symbol of the frame may be changed or the frame cut  *)
(* off; the other calls are made between the pulses of two transmissions. *)

MaxCalls == 2

MaxFrames == 1

\* Accepted by validateConfig although the frame gap is not positive.
NoGapConfig == [DefaultConfig EXCEPT !.frameGapUnits = 0]

ConfigChoices ==
    {DefaultConfig, CompactConfig, [DefaultConfig EXCEPT !.unitDurationMicros = 0]}

Callbacks == {"null", "cb2"}

\* The payloads sent in this specification.
SentPayloads == {<<65>>}

\* What the channel does to a frame: nothing, change one symbol of the
\* named field, or cut the frame off.
Tampers == {"none", "magic", "version", "length", "crc", "ender", "cut"}

\* The frame symbol (counted from 1) that a tamper changes; ns is the
\* number of symbols of the frame.
tamperSymbol(kind, ns) ==
    CASE kind = "magic" -> 1
      [] kind = "version" -> 12
      [] kind = "length" -> 13
      [] kind = "crc" -> 21
      [] OTHER -> ns

\* The channel turns the colour of one symbol mark into the next colour, or
\* loses all but the first n pulses.
corrupt(buf, kind, n) ==
    LET ns == (Len(buf) - 2) \div 2
        j == 2 * tamperSymbol(kind, ns) + 1
    IN  IF kind = "none" \/ j > Len(buf) THEN buf
        ELSE IF kind = "cut" THEN SubSeq(buf, 1, n)
        ELSE [buf EXCEPT ![j].level =
                  symbolToColor(colorToSymbol(buf[j].level).symbol + 1)]

Init ==
    \E c \in {DefaultConfig, CompactConfig} :
        /\ enc = Encoder_configure(c)
        /\ dec = Decoder_new("cb", c)
        /\ out = <<>>
        /\ ret = validateConfig(c)
        /\ wire = <<>>
        /\ call = NoCall
        /\ sc = [sent |-> 0, calls |-> 0]

\* encode(P, out); an output goes on the channel.
Encode ==
    /\ wire = <<>>
    /\ sc.sent < MaxFrames
    /\ \E P \in SentPayloads, t \in Tampers, n \in CutPoints :
        /\ t = "cut" \/ n = 42
        /\ LET r == encode(enc, P, out)
           IN  /\ out' = r.out
               /\ ret' = r.ok
               /\ wire' = IF r.ok THEN corrupt(r.out, t, n) ELSE <<>>
        /\ call' = CallRec("encode", P)
    /\ sc' = [sc EXCEPT !.sent = @ + 1]
    /\ UNCHANGED <<enc, dec>>

FeedWire ==
    /\ wire # <<>>
    /\ dec' = feed(dec, Head(wire))
    /\ wire' = Tail(wire)
    /\ call' = CallRec("feed", Head(wire))
    /\ UNCHANGED <<enc, out, ret, sc>>

FeedNoise ==
    /\ wire = <<>>
    /\ sc.calls < MaxCalls
    /\ \E ch \in NoiseChanges(DefaultConfig) :
        /\ dec' = feed(dec, ch)
        /\ call' = CallRec("feed", ch)
    /\ sc' = [sc EXCEPT !.calls = @ + 1]
    /\ UNCHANGED <<enc, out, ret, wire>>

Reset ==
    /\ wire = <<>>
    /\ sc.calls < MaxCalls
    /\ dec' = reset(dec)
    /\ call' = CallRec("reset", <<>>)
    /\ sc' = [sc EXCEPT !.calls = @ + 1]
    /\ UNCHANGED <<enc, out, ret, wire>>

SetCallback ==
    /\ wire = <<>>
    /\ sc.calls < MaxCalls
    /\ \E cb \in Callbacks :
        /\ dec' = setCallback(dec, cb)
        /\ call' = CallRec("setCallback", cb)
    /\ sc' = [sc EXCEPT !.calls = @ + 1]
    /\ UNCHANGED <<enc, out, ret, wire>>

Configure ==
    /\ wire = <<>>
    /\ sc.calls < MaxCalls
    /\ \E c \in ConfigChoices :
        /\ dec' = configure(dec, c)
        /\ ret' = dec'.valid_
        /\ call' = CallRec("configure", c)
    /\ sc' = [sc EXCEPT !.calls = @ + 1]
    /\ UNCHANGED <<enc, out, wire>>

Next ==
    \/ Encode
    \/ FeedWire
    \/ FeedNoise
    \/ Reset
    \/ SetCallback
    \/ Configure

Spec == Init /\ [][Next]_vars

\* The frame the decoder holds once the pending symbol is integrated.
FrameInProgress ==
    Append(dec.frameBuffer_, (dec.currentByte_ * 4 + dec.pendingSymbol_) % 256)

PayloadOf(f) == SubSeq(f, 8, Len(f) - 2)

\* f is a complete frame of configuration c.
WellFormed(c, f) ==
    /\ Len(f) >= 9
    /\ f[1] * 256 + f[2] = c.magic
    /\ f[3] = c.version
    /\ f[4] * 256 + f[5] <= c.maxPayloadBytes
    /\ Len(f) = 9 + f[4] * 256 + f[5]
    /\ f[Len(f) - 1] * 256 + f[Len(f)] = c.ender
    /\ f[6] * 256 + f[7] = computeCrc16(PayloadOf(f), f[4] * 256 + f[5])

\* C3: whenever a call changes framesDecoded or invokes the callback, it is
\* a feed that completes the last byte of a frame in progress, the bytes
\* accumulated since the preamble form a complete frame with the configured
\* magic, version and ender, a length L <= maxPayloadBytes with 9+L bytes
\* received and a header CRC equal to the CRC-16 of the L payload bytes;
\* framesDecoded goes up by 1 and a registered callback is invoked once,
\* with exactly those L bytes.
C3_Step ==
    (dec'.stats_.framesDecoded # dec.stats_.framesDecoded
     \/ dec'.delivered # dec.delivered) =>
        /\ call'.op = "feed"
        /\ dec.state_ = "ReadSpace"
        /\ dec.frameActive_
        /\ dec.bitsFilled_ = 6
        /\ WellFormed(dec.config_, FrameInProgress)
        /\ dec'.stats_.framesDecoded = dec.stats_.framesDecoded + 1
        /\ dec'.delivered =
             IF dec.callback_ = "null" THEN dec.delivered
             ELSE Append(dec.delivered,
                         [cb |-> dec.callback_, data |-> PayloadOf(FrameInProgress)])

C3_NoFalseFrames == [][C3_Step]_vars

C3_Witness ==
    /\ call.op = "feed"
    /\ call.state = "ReadSpace"
    /\ dec.stats_.framesDecoded = 1
    /\ dec.stats_.truncatedFrames >= 1
    /\ Len(dec.delivered) = 1
    /\ dec.delivered[1].data = <<65>>

\* C6: no call (feed, reset, configure, setCallback) lowers any of the nine
\* counters, and after every call the state is one of the four states.
C6_Step ==
    /\ \A n \in CounterNames : dec'.stats_[n] >= dec.stats_[n]
    /\ dec'.state_ \in States

C6_CountersMonotone == [][C6_Step]_vars

C6_Witness ==
    /\ call.op \in {"reset", "configure", "setCallback"}
    /\ dec.stats_.framesDecoded = 1
    /\ dec.stats_.durationRejections = 1

\* C7: reset() in any state leaves the decoder Idle with an empty frame
\* buffer, a cleared byte accumulator, an unknown length and no active
\* frame, and changes neither the counters, the configuration, the validity
\* flag, the callback nor what was delivered.
C7_Step ==
    call'.op = "reset" =>
        /\ dec'.state_ = "Idle"
        /\ dec'.frameBuffer_ = <<>>
        /\ dec'.currentByte_ = 0
        /\ dec'.bitsFilled_ = 0
        /\ dec'.pendingSymbol_ = 0
        /\ ~dec'.payloadLengthKnown_
        /\ dec'.expectedPayloadLength_ = 0
        /\ ~dec'.frameActive_
        /\ dec'.stats_ = dec.stats_
        /\ dec'.config_ = dec.config_
        /\ dec'.valid_ = dec.valid_
        /\ dec'.callback_ = dec.callback_
        /\ dec'.delivered = dec.delivered

C7_ResetEffect == [][C7_Step]_vars

C7_Witness ==
    /\ call.op = "reset"
    /\ call.active
    /\ call.state = "ReadSpace"
    /\ dec.state_ = "Idle"
    /\ ~dec.frameActive_
    /\ dec.stats_.durationRejections = 1

\* C8: configure(c) in any state stores c, sets the validity flag to what
\* validateConfig gives for c, returns the flag, drops a frame in progress,
\* leaves the decoder Idle, and changes no counter.
C8_Step ==
    call'.op = "configure" =>
        /\ dec'.config_ = call'.arg
        /\ dec'.valid_ = validateConfig(call'.arg)
        /\ ret' = dec'.valid_
        /\ dec'.state_ = "Idle"
        /\ dec'.frameBuffer_ = <<>>
        /\ dec'.bitsFilled_ = 0
        /\ dec'.currentByte_ = 0
        /\ ~dec'.payloadLengthKnown_
        /\ ~dec'.frameActive_
        /\ dec'.stats_ = dec.stats_

C8_ConfigureEffect == [][C8_Step]_vars

C8_Witness ==
    /\ call.op = "configure"
    /\ call.active
    /\ call.state = "ReadMark"
    /\ call.arg # DefaultConfig
    /\ dec.config_ = call.arg
    /\ dec.state_ = "Idle"
    /\ dec.stats_.durationRejections = 1

-----------------------------------------------------------------------------
(* Configuration: an encoder and a decoder are reconfigured with valid and  *)
(* invalid configurations, and payloads are encoded and pulses fed in       *)
(* between; sc.ignored counts the feeds made while the decoder's flag was   *)
(* false.                                                                   *)

MaxSteps == 4

ConfigInputs == {DefaultConfig, CompactConfig, NoGapConfig} \cup InvalidConfigs

CF_Init ==
    /\ enc = Encoder_configure(DefaultConfig)
    /\ dec = Decoder_new("cb", DefaultConfig)
    /\ out = <<>>
    /\ ret = validateConfig(DefaultConfig)
    /\ wire = <<>>
    /\ call = NoCall
    /\ sc = [steps |-> 0, ignored |-> 0]

CF_Configure ==
    /\ sc.steps < MaxSteps
    /\ \E c \in ConfigInputs :
        /\ dec' = configure(dec, c)
        /\ ret' = dec'.valid_
        /\ call' = CallRec("configure", c)
    /\ sc' = [sc EXCEPT !.steps = @ + 1]
    /\ UNCHANGED <<enc, out, wire>>

CF_ConfigureEncoder ==
    /\ sc.steps < MaxSteps
    /\ \E c \in ConfigInputs :
        /\ enc' = Encoder_configure(c)
        /\ ret' = enc'.valid_
        /\ call' = CallRec("configureEncoder", c)
    /\ sc' = [sc EXCEPT !.steps = @ + 1]
    /\ UNCHANGED <<dec, out, wire>>

CF_Encode ==
    /\ sc.steps < MaxSteps
    /\ \E P \in StreamPayloads :
        /\ LET r == encode(enc, P, out)
           IN  /\ out' = r.out
               /\ ret' = r.ok
        /\ call' = CallRec("encode", P)
    /\ sc' = [sc EXCEPT !.steps = @ + 1]
    /\ UNCHANGED <<enc, dec, wire>>

CF_Feed ==
    /\ sc.steps < MaxSteps
    /\ \E ch \in NoiseChanges(DefaultConfig) :
        /\ dec' = feed(dec, ch)
        /\ call' = CallRec("feed", ch)
    /\ sc' = [sc EXCEPT !.steps = @ + 1,
                        !.ignored = IF dec.valid_ THEN @ ELSE @ + 1]
    /\ UNCHANGED <<enc, out, ret, wire>>

CF_Next ==
    \/ CF_Configure
    \/ CF_ConfigureEncoder
    \/ CF_Encode
    \/ CF_Feed

SpecConfig == CF_Init /\ [][CF_Next]_vars

\* C9: configuring with an invalid configuration clears the validity flag
\* and returns it, and configuring with a valid one sets it; while the
\* encoder's flag is false every encode returns failure, and while the
\* decoder's flag is false every feed leaves the decoder, its state and
\* all of its counters as they were.
C9_Step ==
    /\ (call'.op = "configure" /\ call'.arg \in InvalidConfigs) =>
           (~dec'.valid_ /\ ~ret')
    /\ (call'.op = "configure" /\ call'.arg \in ValidConfigs) =>
           (dec'.valid_ /\ ret')
    /\ (call'.op = "configureEncoder" /\ call'.arg \in InvalidConfigs) =>
           (~enc'.valid_ /\ ~ret')
    /\ (call'.op = "configureEncoder" /\ call'.arg \in ValidConfigs) =>
           (enc'.valid_ /\ ret')
    /\ (call'.op = "encode" /\ ~enc.valid_) => ~ret'
    /\ (call'.op = "feed" /\ ~dec.valid_) => dec' = dec

C9_InvalidDisables == [][C9_Step]_vars

\* configure(invalid), a feed that is ignored, configure(valid), and a feed
\* that is counted again.
C9_Witness ==
    /\ call.op = "feed"
    /\ call.valid
    /\ sc.ignored = 1
    /\ dec.valid_
    /\ dec.stats_.durationRejections = 1

\* What C10 says validateConfig accepts.
ClaimedValid(config) ==
    /\ config.unitDurationMicros > 0
    /\ config.preambleMarkUnits > 0
    /\ config.preambleSpaceUnits > 0
    /\ config.symbolMarkUnits > 0
    /\ config.separatorUnits > 0
    /\ config.frameGapUnits > 0
    /\ 0 < config.maxPayloadBytes
    /\ config.maxPayloadBytes <= 512

\* C10: after every configure the validity flag of the encoder and of the
\* decoder is true exactly when unitDurationMicros and all five unit counts
\* are strictly positive and 0 < maxPayloadBytes <= 512.
C10_ValidIff ==
    /\ dec.valid_ = ClaimedValid(dec.config_)
    /\ enc.valid_ = ClaimedValid(enc.config_)

-----------------------------------------------------------------------------
(* The encoder alone: encode calls on one output buffer, with payloads of   *)
(* length 0, 1, 2, 3, 512 and 513, and configure calls in between.          *)

MaxEncoderCalls == 3

\* A payload of n bytes.
LongPayload(n) == [i \in 1..n |-> (7 * i) % 256]

EncodePayloads ==
    {<<>>, <<255>>, <<72, 105>>, <<0, 72, 105>>,
     LongPayload(DATAPACKLIB_MAX_PAYLOAD),
     LongPayload(DATAPACKLIB_MAX_PAYLOAD + 1)}

EncoderConfigs ==
    ValidConfigs \cup {[DefaultConfig EXCEPT !.unitDurationMicros = 0]}

EN_Init ==
    \E c \in EncoderConfigs :
        /\ enc = Encoder_configure(c)
        /\ dec = Decoder_new("cb", DefaultConfig)
        /\ out = <<>>
        /\ ret = validateConfig(c)
        /\ wire = <<>>
        /\ call = NoCall
        /\ sc = [steps |-> 0]

EN_Encode ==
    /\ sc.steps < MaxEncoderCalls
    /\ \E P \in EncodePayloads :
        /\ LET r == encode(enc, P, out)
           IN  /\ out' = r.out
               /\ ret' = r.ok
        /\ call' = CallRec("encode", P)
    /\ sc' = [sc EXCEPT !.steps = @ + 1]
    /\ UNCHANGED <<enc, dec, wire>>

EN_Configure ==
    /\ sc.steps < MaxEncoderCalls
    /\ \E c \in EncoderConfigs :
        /\ enc' = Encoder_configure(c)
        /\ ret' = enc'.valid_
        /\ call' = CallRec("configureEncoder", c)
    /\ sc' = [sc EXCEPT !.steps = @ + 1]
    /\ UNCHANGED <<dec, out, wire>>

EN_Next ==
    \/ EN_Encode
    \/ EN_Configure

SpecEncode == EN_Init /\ [][EN_Next]_vars

\* C11: whenever an encode call returns failure, the output buffer is
\* empty on return.
C11_Transactional ==
    (call.op = "encode" /\ ~ret) => out = <<>>

\* C12: under a valid configuration encode succeeds exactly for the
\* payloads of length L <= min(maxPayloadBytes, 512).
C12_LengthCap ==
    (call.op = "encode" /\ enc.valid_) =>
        (ret <=> Len(call.arg) <= Min(enc.config_.maxPayloadBytes, 512))

C12_Witness ==
    /\ call.op = "encode"
    /\ enc.valid_
    /\ Len(call.arg) = 512
    /\ ret
    /\ Len(out) = 8 * (9 + 512) + 3

\* The 2-bit symbol carried by the k-th symbol mark of an encode output.
SymbolOf(buf, k) == colorToSymbol(buf[2 * k + 1].level).symbol

\* The bytes carried by an encode output: four symbols a byte, high pair
\* first, after the two preamble pulses.
BytesOf(buf) ==
    [i \in 1..((Len(buf) - 2) \div 8) |->
        64 * SymbolOf(buf, 4 * i - 3) + 16 * SymbolOf(buf, 4 * i - 2)
        + 4 * SymbolOf(buf, 4 * i - 1) + SymbolOf(buf, 4 * i)]

\* C17: for every payload of length L accepted by encode, the frame put on
\* the wire has exactly 9+L bytes: magic high, magic low, version, L high,
\* L low, CRC high, CRC low, the L payload bytes in order, ender high, ender
\* low; the CRC is that of the L payload bytes only.
C17_FrameLayout ==
    (call.op = "encode" /\ ret) =>
        LET f == BytesOf(out)
            P == call.arg
            L == Len(P)
            c == enc.config_
        IN  /\ Len(f) = 9 + L
            /\ f[1] = c.magic \div 256
            /\ f[2] = c.magic % 256
            /\ f[3] = c.version
            /\ f[4] = L \div 256
            /\ f[5] = L % 256
            /\ f[6] = computeCrc16(P, L) \div 256
            /\ f[7] = computeCrc16(P, L) % 256
            /\ \A i \in 1..L : f[7 + i] = P[i]
            /\ f[8 + L] = c.ender \div 256
            /\ f[9 + L] = c.ender % 256

C17_Witness ==
    /\ call.op = "encode"
    /\ ret
    /\ call.arg = <<0, 72, 105>>
    /\ enc.config_ = DefaultConfig
    /\ BytesOf(out)[4] = 0
    /\ BytesOf(out)[5] = 3
    /\ SubSeq(BytesOf(out), 8, 10) = <<0, 72, 105>>

\* C18 as stated: with the default configuration and payload 48 69 the
\* CRC-16 is 0x0BA9 and the frame is C3 9A 01 00 02 0B A9 48 69 51 AA.
C18_Literal ==
    (call.op = "encode" /\ ret /\ enc.config_ = DefaultConfig
     /\ call.arg = <<72, 105>>) =>
        /\ computeCrc16(call.arg, 2) = 2985
        /\ BytesOf(out) = <<195, 154, 1, 0, 2, 11, 169, 72, 105, 81, 170>>

\* C18, amended: with the default configuration and payload 48 69 the
\* CRC-16 is 0x64E5 and the frame is C3 9A 01 00 02 64 E5 48 69 51 AA.
C18_LiteralFrame ==
    (call.op = "encode" /\ ret /\ enc.config_ = DefaultConfig
     /\ call.arg = <<72, 105>>) =>
        /\ computeCrc16(call.arg, 2) = 25829
        /\ BytesOf(out) = <<195, 154, 1, 0, 2, 100, 229, 72, 105, 81, 170>>

C18_Witness ==
    /\ call.op = "encode"
    /\ ret
    /\ enc.config_ = DefaultConfig
    /\ call.arg = <<72, 105>>
    /\ Len(out) = 91

\* C20: for every valid configuration and accepted payload of length L the
\* output has exactly 8*(9+L)+3 signal changes: the preamble mark and space,
\* for each frame byte and shift 6, 4, 2, 0 the symbol mark and separator,
\* and the frame gap; every duration is strictly positive.
C20_PulseStructure ==
    (call.op = "encode" /\ ret) =>
        LET c == enc.config_
            u == c.unitDurationMicros
            f == serializeFrame(c, call.arg, Len(call.arg))
            n == 8 * (9 + Len(call.arg)) + 3
        IN  /\ Len(out) = n
            /\ out[1] = [level |-> c.preambleColor,
                         duration |-> c.preambleMarkUnits * u]
            /\ out[2] = [level |-> "Off", duration |-> c.preambleSpaceUnits * u]
            /\ \A i \in 1..Len(f), k \in 0..3 :
                 /\ out[8 * (i - 1) + 2 * k + 3] =
                      [level |-> symbolToColor((f[i] \div (4 ^ (3 - k))) % 4),
                       duration |-> c.symbolMarkUnits * u]
                 /\ out[8 * (i - 1) + 2 * k + 4] =
                      [level |-> "Off", duration |-> c.separatorUnits * u]
            /\ out[n] = [level |-> "Off", duration |-> c.frameGapUnits * u]
            /\ \A j \in 1..n : out[j].duration > 0

-----------------------------------------------------------------------------
(* computeCrc16 on its own: a byte sequence is chosen and its CRC computed. *)

MaxCrcLen == 2

CrcByteValues == {0, 1, 16, 72, 105, 128, 170, 255}

\* The ASCII digits "123456789", the usual check input of a CRC.
CheckInput == <<49, 50, 51, 52, 53, 54, 55, 56, 57>>

CrcInputs == SeqsUpTo(CrcByteValues, MaxCrcLen) \cup {CheckInput}

CRC_Init ==
    \E d \in CrcInputs :
        /\ enc = Encoder_configure(DefaultConfig)
        /\ dec = Decoder_new("cb", DefaultConfig)
        /\ out = <<>>
        /\ ret = TRUE
        /\ wire = <<>>
        /\ call = NoCall
        /\ sc = [data |-> d, done |-> FALSE, crc |-> 0]

CRC_Compute ==
    /\ ~sc.done
    /\ sc' = [sc EXCEPT !.done = TRUE,
                        !.crc = computeCrc16(sc.data, Len(sc.data))]
    /\ call' = CallRec("computeCrc16", sc.data)
    /\ UNCHANGED <<enc, dec, out, ret, wire>>

CRC_Next == CRC_Compute

SpecCrc == CRC_Init /\ [][CRC_Next]_vars

\* Bit k (0 the lowest) of byte b.
BitOf(b, k) == (b \div (2 ^ k)) % 2

\* CRC-16/CCITT-FALSE as a shift register fed one message bit at a time,
\* high bit of each byte first: the register is shifted left modulo 2^16
\* and the polynomial 0x1021 is added when the bit shifted out differs from
\* the message bit.
RefShift(reg, b) ==
    IF (reg \div 32768) # b
    THEN Xor16((reg * 2) % 65536, 4129)
    ELSE (reg * 2) % 65536

\* Message bit j, counted from 1.
MessageBit(data, j) == BitOf(data[((j - 1) \div 8) + 1], 7 - ((j - 1) % 8))

\* The register after the message bits lo..hi, in order, from reg; the
\* range is fed as its two halves, one after the other.
RECURSIVE RefCrcBits(_, _, _, _)
RefCrcBits(reg, data, lo, hi) ==
    IF lo > hi THEN reg
    ELSE IF lo = hi THEN RefShift(reg, MessageBit(data, lo))
    ELSE LET mid == (lo + hi) \div 2
             half == RefCrcBits(reg, data, lo, mid)
         IN  IF half \in 0..65535 THEN RefCrcBits(half, data, mid + 1, hi)
             ELSE half

RefCrc16(data) == RefCrcBits(65535, data, 1, 8 * Len(data))

\* C19: computeCrc16 equals CRC-16/CCITT-FALSE (polynomial 0x1021, initial
\* value 0xFFFF, no reflection, no final XOR, 16-bit arithmetic) on every
\* byte sequence of bounded length: it is 0xFFFF for the empty sequence and
\* 0x29B1 for the check input "123456789".
C19_CrcReference ==
    sc.done =>
        /\ sc.crc \in 0..65535
        /\ sc.crc = RefCrc16(sc.data)
        /\ sc.data = <<>> => sc.crc = 65535
        /\ sc.data = CheckInput => sc.crc = 10673

C19_Witness ==
    /\ sc.done
    /\ sc.data = CheckInput
    /\ sc.crc = 10673

-----------------------------------------------------------------------------
(* Frames made on the wire: a fresh decoder is fed, pulse by pulse, a       *)
(* complete frame that is valid, or that differs from a valid one in its    *)
(* CRC field or payload, its version, its magic or its ender, or whose      *)
(* length field and payload are one byte over maxPayloadBytes.              *)

WirePayloads == {<<>>, <<255>>, <<72, 105>>}

\* The bits of a byte that the channel inverts.
FlipMasks == {1, 2, 128, 255}

XorByte(b, m) == XorBits(b, m, 8)

\* The frames put on the wire for configuration c and payload P, each with
\* the kind of its difference from the valid frame.
WireCases(c, P) ==
    LET L == Len(P)
        base == serializeFrame(c, P, L)
        over == c.maxPayloadBytes + 1
    IN  {[kind |-> "valid", frame |-> base]}
        \cup {[kind |-> "crc", frame |-> [base EXCEPT ![i] = XorByte(@, m)]] :
                 i \in 6..(7 + L), m \in FlipMasks}
        \cup {[kind |-> "version", frame |-> [base EXCEPT ![3] = v]] :
                 v \in {(c.version + 1) % 256, 255 - c.version}}
        \cup {[kind |-> "magic", frame |-> [base EXCEPT ![i] = XorByte(@, m)]] :
                 i \in 1..2, m \in FlipMasks}
        \cup {[kind |-> "magic",
               frame |-> [base EXCEPT ![1] = 255 - @, ![2] = 255 - @]]}
        \cup {[kind |-> "ender",
               frame |-> [base EXCEPT ![8 + L] = base[9 + L],
                                      ![9 + L] = base[8 + L]]]}
        \cup {[kind |-> "overlength",
               frame |-> serializeFrame(c, LongPayload(over), over)]}

\* The pulses of a frame, as Encoder::encode emits them.
WirePulses(c, frame) == emitAll(c, frame, 8 * Len(frame) + 3).buffer

WR_Init ==
    \E c \in ValidConfigs, P \in WirePayloads :
        /\ Len(P) <= c.maxPayloadBytes
        /\ \E w \in WireCases(c, P) :
            /\ wire = WirePulses(c, w.frame)
            /\ sc = [kind |-> w.kind, frame |-> w.frame, fed |-> 0]
        /\ enc = Encoder_configure(c)
        /\ dec = Decoder_new("cb", c)
        /\ out = <<>>
        /\ ret = validateConfig(c)
        /\ call = NoCall

WR_Feed ==
    /\ wire # <<>>
    /\ dec' = feed(dec, Head(wire))
    /\ wire' = Tail(wire)
    /\ call' = CallRec("feed", Head(wire))
    /\ sc' = [sc EXCEPT !.fed = @ + 1]
    /\ UNCHANGED <<enc, out, ret>>

WR_Next == WR_Feed

SpecWire == WR_Init /\ [][WR_Next]_vars

\* The frame on the wire differs from its valid form as its kind says.
WireFrameValid == WellFormed(dec.config_, sc.frame)

\* No pulse that follows the preamble in a frame can be taken for the
\* preamble mark.
NoFalsePreamble(c) ==
    IF c.preambleColor = "Off"
    THEN /\ ~matches(c, c.separatorUnits, c.preambleMarkUnits)
         /\ ~matches(c, c.frameGapUnits, c.preambleMarkUnits)
    ELSE ~matches(c, c.symbolMarkUnits, c.preambleMarkUnits)

\* What C13 says of a frame with a valid preamble and a length field
\* greater than maxPayloadBytes, followed by the rest of that frame:
\* lengthViolations is 0 until the fifth frame byte is complete (42 pulses)
\* and 1 from then on, the frame is aborted there, and no callback is
\* invoked.
OverlengthOutcome ==
    /\ dec.stats_.lengthViolations = IF sc.fed >= 42 THEN 1 ELSE 0
    /\ sc.fed = 42 => (dec.state_ = "Idle" /\ ~dec.frameActive_
                       /\ dec.frameBuffer_ = <<>>)
    /\ dec.delivered = <<>>
    /\ dec.stats_.framesDecoded = 0

\* C13 as stated, in any valid configuration: an over-length frame
\* increments lengthViolations exactly once, at the fifth byte.
C13_AnyConfig == sc.kind = "overlength" => OverlengthOutcome

\* C13, amended: in a configuration where no symbol mark, separator or gap
\* can be taken for the preamble mark, an over-length frame increments
\* lengthViolations exactly once, at the completion of the fifth frame
\* byte, the frame is aborted, and no callback is invoked.
C13_Overlength ==
    (sc.kind = "overlength" /\ NoFalsePreamble(dec.config_)) => OverlengthOutcome

C13_Witness ==
    /\ sc.kind = "overlength"
    /\ wire = <<>>
    /\ NoFalsePreamble(dec.config_)
    /\ sc.frame[4] * 256 + sc.frame[5] = dec.config_.maxPayloadBytes + 1
    /\ Len(sc.frame) = 9 + dec.config_.maxPayloadBytes + 1
    /\ dec.stats_.lengthViolations = 1
    /\ dec.stats_.truncatedFrames = 1

\* C14: a fresh decoder fed an otherwise valid frame whose CRC field or
\* payload has bits inverted, so that the CRC no longer matches, ends with
\* framesDecoded = 0, crcFailures = 1 and no callback invocation.
C14_CrcCorruption ==
    (sc.kind = "crc"
     /\ sc.frame[6] * 256 + sc.frame[7] # computeCrc16(PayloadOf(sc.frame),
                                                       Len(sc.frame) - 9)) =>
        /\ dec.delivered = <<>>
        /\ dec.stats_.framesDecoded = 0
        /\ dec.stats_.crcFailures <= 1
        /\ wire = <<>> => dec.stats_.crcFailures = 1

\* Payload FF with the first byte of the CRC field inverted.
C14_Witness ==
    /\ sc.kind = "crc"
    /\ wire = <<>>
    /\ dec.config_ = DefaultConfig
    /\ PayloadOf(sc.frame) = <<255>>
    /\ sc.frame[6] = 255 - (computeCrc16(<<255>>, 1) \div 256)
    /\ sc.frame[7] = computeCrc16(<<255>>, 1) % 256
    /\ dec.stats_.crcFailures = 1
    /\ dec.stats_.framesDecoded = 0

\* C15: a complete frame that differs from a valid one only in the version
\* byte increments headerRejects by exactly 1, one that differs only by its
\* two ender bytes being swapped increments enderMismatches by exactly 1,
\* and one that differs only in the magic increments magicMismatches by
\* exactly 1; in each case framesDecoded stays 0 and no callback is invoked.
C15_FieldCounters ==
    (sc.kind \in {"version", "ender", "magic"} /\ ~WireFrameValid) =>
        /\ dec.delivered = <<>>
        /\ dec.stats_.framesDecoded = 0
        /\ wire = <<>> =>
            /\ dec.stats_.headerRejects = IF sc.kind = "version" THEN 1 ELSE 0
            /\ dec.stats_.enderMismatches = IF sc.kind = "ender" THEN 1 ELSE 0
            /\ dec.stats_.magicMismatches = IF sc.kind = "magic" THEN 1 ELSE 0

C15_Witness ==
    /\ sc.kind = "ender"
    /\ wire = <<>>
    /\ dec.config_ = DefaultConfig
    /\ SubSeq(sc.frame, Len(sc.frame) - 1, Len(sc.frame)) = <<170, 81>>
    /\ dec.stats_.enderMismatches = 1

-----------------------------------------------------------------------------
(* Truncation accounting, under the specification Spec.                     *)

\* A call abandons the frame in progress: the frame was active, it no
\* longer is, and it was not decoded.
FrameAbandoned ==
    /\ dec.frameActive_
    /\ ~dec'.frameActive_
    /\ dec'.stats_.framesDecoded = dec.stats_.framesDecoded

\* C16 as stated: whenever a frame in progress is abandoned for any reason,
\* a reset() or a configure() included, truncatedFrames goes up by
\* exactly 1.
C16_AnyAbandonStep ==
    FrameAbandoned =>
        dec'.stats_.truncatedFrames = dec.stats_.truncatedFrames + 1

C16_AnyAbandon == [][C16_AnyAbandonStep]_vars

\* C16, amended: whenever a feed abandons a frame in progress (a rejected
\* input, a length violation, a failed finalization check) truncatedFrames
\* goes up by exactly 1; a reset() or a configure() that abandons a frame
\* in progress leaves truncatedFrames as it is.
C16_Step ==
    FrameAbandoned =>
        dec'.stats_.truncatedFrames =
            dec.stats_.truncatedFrames + (IF call'.op = "feed" THEN 1 ELSE 0)

C16_TruncationAccounting == [][C16_Step]_vars

C16_Witness ==
    /\ call.op = "feed"
    /\ call.active
    /\ ~dec.frameActive_
    /\ dec.stats_.framesDecoded = 0
    /\ dec.stats_.enderMismatches = 1
    /\ dec.stats_.truncatedFrames = 1

-----------------------------------------------------------------------------
(* ProtocolConfig::tolerance and Decoder::matches on their own: an expected *)
(* unit count, a drift fraction and an observed unit count are chosen and   *)
(* both builds of the library compute the tolerance and the match.          *)

\* ProtocolConfig::tolerance of the hosted build (src/datapacklib.cpp):
\* max(1, (long)ceil(expectedUnits * max(allowedDriftFraction, 0.01))).
tolerance_cpp(config, expectedUnits) ==
    LET fraction == Max(config.allowedDriftFraction, 1)
        raw == (expectedUnits * fraction + DriftDen - 1) \div DriftDen
    IN  Max(1, raw)

\* Decoder::matches of the hosted build, on its own tolerance.
matches_cpp(config, units, expected) ==
    Abs(units - expected) <= tolerance_cpp(config, expected)

MaxExpectedUnits == 20

\* allowedDriftFraction in hundredths: below the 0.01 floor (negative, 0),
\* on it, the default 0.20, and fractions up to 1.0.
DriftValues == {0 - 5, 0, 1, 5, 10, 20, 25, 50, 100}

TOL_Init ==
    \E e \in 1..MaxExpectedUnits, f \in DriftValues, o \in 0..(2 * MaxExpectedUnits + 2) :
        /\ enc = Encoder_configure(DefaultConfig)
        /\ dec = Decoder_new("cb", DefaultConfig)
        /\ out = <<>>
        /\ ret = TRUE
        /\ wire = <<>>
        /\ call = NoCall
        /\ sc = [config |-> [DefaultConfig EXCEPT !.allowedDriftFraction = f],
                 expected |-> e, observed |-> o, done |-> FALSE,
                 tol |-> 0, tolCpp |-> 0, match |-> FALSE, matchCpp |-> FALSE]

TOL_Compute ==
    /\ ~sc.done
    /\ sc' = [sc EXCEPT !.done = TRUE,
                        !.tol = tolerance(sc.config, sc.expected),
                        !.tolCpp = tolerance_cpp(sc.config, sc.expected),
                        !.match = matches(sc.config, sc.observed, sc.expected),
                        !.matchCpp = matches_cpp(sc.config, sc.observed, sc.expected)]
    /\ call' = CallRec("tolerance", sc.expected)
    /\ UNCHANGED <<enc, dec, out, ret, wire>>

TOL_Next == TOL_Compute

SpecTolerance == TOL_Init /\ [][TOL_Next]_vars

\* round(expectedUnits * max(allowedDriftFraction, 0.01)): the integer
\* nearest to the product, the upper one of two equally near.
RoundedDrift(config, expectedUnits) ==
    LET p == expectedUnits * Max(config.allowedDriftFraction, 1)
    IN  CHOOSE n \in 0..p : DriftDen * n <= p + 50 /\ p + 50 < DriftDen * (n + 1)

ClaimedTolerance(config, expectedUnits) ==
    Max(1, RoundedDrift(config, expectedUnits))

\* The embedded build (src/unnamed/part_001) computes the claimed tolerance
\* and match for every expected count and drift fraction.
ToleranceEmbedded ==
    sc.done =>
        /\ sc.tol = ClaimedTolerance(sc.config, sc.expected)
        /\ sc.match <=> (Abs(sc.observed - sc.expected)
                            <= ClaimedTolerance(sc.config, sc.expected))

\* C21: for every expected unit count E >= 1 and every drift fraction,
\* tolerance(E) = max(1, round(E * max(allowedDriftFraction, 0.01))) and a
\* unit count matches E iff |observed - E| <= tolerance(E), in both builds
\* of the library; with the default 0.20, tolerance(16) = 3, so 13..19
\* units match a 16-unit preamble mark and 12 or 20 units do not.
C21_Tolerance ==
    sc.done =>
        /\ ToleranceEmbedded
        /\ sc.tolCpp = ClaimedTolerance(sc.config, sc.expected)
        /\ sc.matchCpp <=> (Abs(sc.observed - sc.expected)
                               <= ClaimedTolerance(sc.config, sc.expected))
        /\ (sc.config.allowedDriftFraction = 20 /\ sc.expected = 16) =>
             /\ sc.tol = 3 /\ sc.tolCpp = 3
             /\ sc.match <=> sc.observed \in 13..19
             /\ sc.matchCpp <=> sc.observed \in 13..19

\* The hosted build takes a 20-unit pulse for a 16-unit preamble mark.
C21_Witness ==
    /\ sc.done
    /\ sc.config.allowedDriftFraction = 20
    /\ sc.expected = 16
    /\ sc.observed = 20
    /\ sc.tol = 3 /\ ~sc.match
    /\ sc.tolCpp = 4 /\ sc.matchCpp

-----------------------------------------------------------------------------
(* One pulse off its nominal duration: a fresh decoder is fed, pulse by     *)
(* pulse, an encoded frame in which the duration of one pulse is changed    *)
(* by whole units and by a part of a unit.                                  *)

\* Symbol and separator of three units, so that a separator can be short.
LongSeparatorConfig ==
    [unitDurationMicros |-> 10,
     preambleMarkUnits |-> 8,
     preambleSpaceUnits |-> 4,
     symbolMarkUnits |-> 3,
     separatorUnits |-> 3,
     frameGapUnits |-> 4,
     preambleColor |-> "White",
     allowedDriftFraction |-> 20,
     maxPayloadBytes |-> 1,
     magic |-> 50074,
     ender |-> 20906,
     version |-> 1]

DriftConfigs == {DefaultConfig, CompactConfig, LongSeparatorConfig}

\* One byte holding each of the four symbols.
DriftPayload == <<27>>

\* The pulse that is changed: the preamble mark and space, the first and a
\* later symbol mark and separator, and the last three pulses of n.
DriftPositions(n) == {1, 2, 3, 4, 41, 42, n - 2, n - 1, n}

\* Parts of a unit added to or taken from a duration: none, one
\* microsecond, just inside and just outside the drift limit, half a unit.
SubUnitOffsets(c) ==
    LET u == c.unitDurationMicros
        lim == (Max(c.allowedDriftFraction, 1) * u) \div DriftDen
        mags == {0, 1, lim - 1, lim + 1, u \div 2}
    IN  {m : m \in mags} \cup {0 - m : m \in mags}

\* What the pulse at position p of an n-pulse frame is.
PulseKind(c, p, n) ==
    IF p = 1 THEN "preambleMark"
    ELSE IF p = 2 THEN "preambleSpace"
    ELSE IF p = n /\ c.frameGapUnits > 0 THEN "gap"
    ELSE IF p % 2 = 1 THEN "symbolMark"
    ELSE "separator"

DR_Init ==
    \E c \in DriftConfigs :
        LET frame == serializeFrame(c, DriftPayload, Len(DriftPayload))
            exact == WirePulses(c, frame)
            n == Len(exact)
            u == c.unitDurationMicros
        IN  \E p \in DriftPositions(n) :
                LET nominal == exact[p].duration \div u
                    t == tolerance(c, nominal)
                IN  \E k \in (0 - (t + 1))..(t + 1), e \in SubUnitOffsets(c) :
                        LET d == (nominal + k) * u + e
                        IN  /\ wire = [exact EXCEPT ![p].duration = d]
                            /\ sc = [pos |-> p, kind |-> PulseKind(c, p, n),
                                     nominal |-> nominal, duration |-> d,
                                     exact |-> exact[p], fed |-> 0,
                                     pre |-> Decoder_new("cb", c)]
                            /\ enc = Encoder_configure(c)
                            /\ dec = Decoder_new("cb", c)
                            /\ out = <<>>
                            /\ ret = validateConfig(c)
                            /\ call = NoCall

DR_Feed ==
    /\ wire # <<>>
    /\ dec' = feed(dec, Head(wire))
    /\ wire' = Tail(wire)
    /\ call' = CallRec("feed", Head(wire))
    /\ sc' = [sc EXCEPT !.fed = @ + 1,
                        !.pre = IF sc.fed + 1 = sc.pos THEN dec ELSE @]
    /\ UNCHANGED <<enc, out, ret>>

DR_Next == DR_Feed

SpecDrift == DR_Init /\ [][DR_Next]_vars

\* round(duration / unitDuration): the whole number of units nearest to a
\* duration, the upper one of two equally near; 0 stands for every
\* rounding of a duration that is not positive.
NearestUnits(duration, unitDuration) ==
    IF duration <= 0 THEN 0
    ELSE CHOOSE n \in 0..(duration \div unitDuration + 1) :
             /\ (2 * n - 1) * unitDuration <= 2 * duration
             /\ 2 * duration < (2 * n + 1) * unitDuration

\* The changed pulse in whole units.
DriftUnits == NearestUnits(sc.duration, dec.config_.unitDurationMicros)

\* The changed duration is within max(allowedDriftFraction, 0.01) of a unit
\* of a whole positive number of units.
TimingValid ==
    LET c == dec.config_
    IN  /\ sc.duration > 0
        /\ DriftUnits >= 1
        /\ Abs(sc.duration - DriftUnits * c.unitDurationMicros) * DriftDen
             <= Max(c.allowedDriftFraction, 1) * c.unitDurationMicros

\* The changed pulse is timing-valid and its units are within the
\* tolerance of the nominal units.
UnitsInBand ==
    /\ TimingValid
    /\ Abs(DriftUnits - sc.nominal) <= ClaimedTolerance(dec.config_, sc.nominal)

\* The duration is within allowedDriftFraction * nominal, and at least one
\* unit, of the nominal duration.
DurationInBand ==
    LET c == dec.config_
        u == c.unitDurationMicros
    IN  Abs(sc.duration - sc.nominal * u) * DriftDen
          <= Max(DriftDen * u, Max(c.allowedDriftFraction, 1) * sc.nominal * u)

\* The duration is a whole number of units, one unit outside the band.
OneUnitOutside ==
    LET c == dec.config_
        t == ClaimedTolerance(c, sc.nominal)
    IN  /\ sc.duration > 0
        /\ Abs(sc.duration - sc.nominal * c.unitDurationMicros)
             = (t + 1) * c.unitDurationMicros

NoRejection == \A n \in RejectionCounters : dec.stats_[n] = 0

\* The changed pulse was taken as the exact pulse would have been, no
\* rejection counter moves, and the frame is delivered at its end.
Accepted ==
    /\ sc.fed >= sc.pos => NoRejection
    /\ sc.fed = sc.pos => dec = feed(sc.pre, sc.exact)
    /\ (sc.fed >= sc.pos /\ wire = <<>>) =>
         /\ dec.stats_.framesDecoded = 1
         /\ dec.delivered = <<[cb |-> "cb", data |-> DriftPayload]>>

\* The counter that the changed pulse moved, if any, when it was fed.
Bumped(n) == sc.fed = sc.pos /\ dec.stats_[n] = sc.pre.stats_[n] + 1

Untouched(n) == sc.fed = sc.pos => dec.stats_[n] = sc.pre.stats_[n]

C22_WitnessOutside ==
    /\ sc.fed = sc.pos
    /\ sc.kind = "separator"
    /\ TimingValid
    /\ DriftUnits = 1
    /\ sc.nominal = 3
    /\ dec.stats_.durationRejections = 1

-----------------------------------------------------------------------------
(* Output buffers of several capacities: the library is built with a value  *)
(* of DATAPACKLIB_MAX_SIGNAL_CHANGES, an encoder of a valid configuration   *)
(* is made and encode is called on one buffer, one payload after another.   *)

MaxOverflowCalls == 2

\* Capacities of the output buffer: none, a few, one less than and exactly
\* the 75, 83 and 91 changes of a frame of 0, 1 and 2 payload bytes, and
\* the default.
SignalCapacities ==
    {0, 3, 74, 75, 82, 83, 90, 91, DATAPACKLIB_MAX_SIGNAL_CHANGES}

OverflowPayloads ==
    {<<>>, <<255>>, <<72, 105>>, LongPayload(DATAPACKLIB_MAX_PAYLOAD)}

OV_Init ==
    \E c \in ValidConfigs, cap \in SignalCapacities :
        /\ enc = Encoder_configure(c)
        /\ dec = Decoder_new("cb", DefaultConfig)
        /\ out = <<>>
        /\ ret = validateConfig(c)
        /\ wire = <<>>
        /\ call = NoCall
        /\ sc = [capacity |-> cap, steps |-> 0]

OV_Encode ==
    /\ sc.steps < MaxOverflowCalls
    /\ \E P \in OverflowPayloads :
        /\ LET r == encodeInto(enc, P, Len(P), out, sc.capacity)
           IN  /\ out' = r.out
               /\ ret' = r.ok
        /\ call' = CallRec("encode", P)
    /\ sc' = [sc EXCEPT !.steps = @ + 1]
    /\ UNCHANGED <<enc, dec, wire>>

OV_Next == OV_Encode

SpecOverflow == OV_Init /\ [][OV_Next]_vars

\* The signal changes the claim gives a frame of L payload bytes.
ClaimedChanges(L) == 8 * (9 + L) + 3

\* The length of the payload passes encode's cap.
LengthAccepted(P) ==
    Len(P) <= Min(enc.config_.maxPayloadBytes, DATAPACKLIB_MAX_PAYLOAD)

\* With the default capacity no accepted payload overflows.
DefaultCapacitySuffices ==
    (call.op = "encode" /\ LengthAccepted(call.arg)
     /\ sc.capacity = DATAPACKLIB_MAX_SIGNAL_CHANGES) => ret

\* C23: if the output buffer cannot hold the 8*(9+L)+3 signal changes of
\* the frame, encode returns failure and the buffer is empty afterwards;
\* with the default capacity (512+9)*8+32 = 4200, no payload of length
\* <= 512 under a valid configuration overflows.
C23_HardFailure ==
    /\ DATAPACKLIB_MAX_SIGNAL_CHANGES = 4200
    /\ (call.op = "encode" /\ sc.capacity < ClaimedChanges(Len(call.arg))) =>
         (~ret /\ out = <<>>)
    /\ DefaultCapacitySuffices

\* What holds of the code: a payload of accepted length under a
\* configuration with a positive frame gap, in a buffer that cannot hold
\* the 8*(9+L)+3 changes, fails and leaves the buffer empty, and succeeds
\* in a buffer that can.
OverflowOfAcceptedPayload ==
    (call.op = "encode" /\ LengthAccepted(call.arg)
     /\ enc.config_.frameGapUnits > 0) =>
        IF sc.capacity < ClaimedChanges(Len(call.arg))
        THEN ~ret /\ out = <<>>
        ELSE ret /\ Len(out) = ClaimedChanges(Len(call.arg))

\* A second encode overflows a buffer that holds the first frame.
C23_Witness ==
    /\ call.op = "encode"
    /\ sc.steps = 2
    /\ sc.capacity = 82
    /\ enc.config_ = DefaultConfig
    /\ call.arg = <<255>>
    /\ ~ret
    /\ out = <<>>

-----------------------------------------------------------------------------
(* The decoder's transitions: a fresh decoder is fed the pulses of an       *)
(* encoded frame, which takes it through every state, and at any point is   *)
(* fed other signal changes of every level and of many durations instead.   *)

MaxFeeds == 2

FeedConfigs == {DefaultConfig, OffPreambleConfig, LongSeparatorConfig}

\* Unit counts of the changes fed: short ones, the preamble space and
\* mark, the last count that matches the preamble mark and the first that
\* does not, and a long one.
FeedUnitChoices(c) ==
    {1, 2, 3, 5, c.preambleSpaceUnits, c.preambleMarkUnits,
     c.preambleMarkUnits + tolerance(c, c.preambleMarkUnits),
     c.preambleMarkUnits + tolerance(c, c.preambleMarkUnits) + 1, 40}

\* Durations of the changes fed: negative, zero, a sixth of a unit and half
\* a unit, whole units, and a preamble mark three tenths of a unit long.
FeedDurations(c) ==
    LET u == c.unitDurationMicros
    IN  {0 - u, 0, u \div 6, u \div 2}
        \cup {k * u : k \in FeedUnitChoices(c)}
        \cup {c.preambleMarkUnits * u + (3 * u) \div 10}

FeedChanges(c) ==
    {[level |-> l, duration |-> d] : l \in LightLevels, d \in FeedDurations(c)}

FD_Init ==
    \E c \in FeedConfigs :
        /\ wire = WirePulses(c, serializeFrame(c, DriftPayload, Len(DriftPayload)))
        /\ enc = Encoder_configure(c)
        /\ dec = Decoder_new("cb", c)
        /\ out = <<>>
        /\ ret = validateConfig(c)
        /\ call = NoCall
        /\ sc = [fed |-> 0]

\* The next pulse of the frame.
FD_FeedWire ==
    /\ wire # <<>>
    /\ dec' = feed(dec, Head(wire))
    /\ wire' = Tail(wire)
    /\ call' = CallRec("feed", Head(wire))
    /\ UNCHANGED <<enc, out, ret, sc>>

\* Another change; the rest of the frame is not sent.
FD_FeedAny ==
    /\ sc.fed < MaxFeeds
    /\ \E ch \in FeedChanges(dec.config_) :
        /\ dec' = feed(dec, ch)
        /\ call' = CallRec("feed", ch)
    /\ wire' = <<>>
    /\ sc' = [sc EXCEPT !.fed = @ + 1]
    /\ UNCHANGED <<enc, out, ret>>

FD_Next ==
    \/ FD_FeedWire
    \/ FD_FeedAny

SpecFeed == FD_Init /\ [][FD_Next]_vars

\* The change is timing-invalid as the claims define it: its units are not
\* positive, or its duration is further than max(allowedDriftFraction,
\* 0.01) of a unit from them.
ClaimTimingInvalid(c, ch) ==
    LET n == NearestUnits(ch.duration, c.unitDurationMicros)
    IN  \/ n <= 0
        \/ Abs(ch.duration - n * c.unitDurationMicros) * DriftDen
             > Max(c.allowedDriftFraction, 1) * c.unitDurationMicros

ClaimMatches(c, ch, expected) ==
    Abs(NearestUnits(ch.duration, c.unitDurationMicros) - expected)
        <= ClaimedTolerance(c, expected)

\* The change is of the preamble colour and its units, rejected or not,
\* match preambleMarkUnits.
ClaimPreambleMark(c, ch) ==
    ch.level = c.preambleColor /\ ClaimMatches(c, ch, c.preambleMarkUnits)

\* A feed step moved counter n by k and no counter outside `moved`.
CounterStep(n, k) == dec'.stats_[n] = dec.stats_[n] + k

CountersKeptBut(moved) ==
    \A n \in CounterNames \ moved : dec'.stats_[n] = dec.stats_[n]

\* The frame in progress, if any, is aborted by the step: the frame state
\* is cleared, truncatedFrames counts an active frame, and the state is
\* WaitSpace if the change is a preamble mark and Idle if not.
AbortedBy(ch) ==
    /\ ~dec'.frameActive_
    /\ dec'.frameBuffer_ = <<>>
    /\ dec'.bitsFilled_ = 0
    /\ CounterStep("truncatedFrames", IF dec.frameActive_ THEN 1 ELSE 0)
    /\ dec'.state_ = IF ClaimPreambleMark(dec.config_, ch)
                     THEN "WaitSpace" ELSE "Idle"

TimingInvalidEffect(ch) ==
    /\ CounterStep("durationRejections", 1)
    /\ CountersKeptBut({"durationRejections", "truncatedFrames"})
    /\ AbortedBy(ch)

C24_AnyDurationStep ==
    (call'.op = "feed" /\ dec.valid_
     /\ ClaimTimingInvalid(dec.config_, call'.arg)) =>
        TimingInvalidEffect(call'.arg)

\* C24: in any decoder state, a feed whose units round(duration /
\* unitDurationMicros) are <= 0, or whose quantization error exceeds
\* max(allowedDriftFraction, 0.01), increments durationRejections by
\* exactly 1, aborts any frame in progress, and leaves the state WaitSpace
\* if the level is the preamble colour and the rejected units match
\* preambleMarkUnits, otherwise Idle.
C24_TimingInvalid == [][C24_AnyDurationStep]_vars

TimingInvalidPositiveStep ==
    (call'.op = "feed" /\ dec.valid_ /\ call'.arg.duration > 0
     /\ ClaimTimingInvalid(dec.config_, call'.arg)) =>
        TimingInvalidEffect(call'.arg)

\* What holds of the code: the same, for changes of positive duration.
TimingInvalidPositive == [][TimingInvalidPositiveStep]_vars

\* A change of duration 0 fed during a frame: nothing is counted and the
\* frame is still in progress.
C24_Witness ==
    /\ call.op = "feed"
    /\ call.arg.duration = 0
    /\ call.state = "ReadSpace"
    /\ call.active
    /\ dec.state_ = "ReadSpace"
    /\ dec.frameActive_
    /\ dec.stats_ = ZeroStats

\* A preamble mark three tenths of a unit long, fed during a frame.
TimingInvalidWitness ==
    /\ call.op = "feed"
    /\ call.arg.level = dec.config_.preambleColor
    /\ call.arg.duration > 0
    /\ ClaimTimingInvalid(dec.config_, call.arg)
    /\ call.state = "ReadMark"
    /\ dec.state_ = "WaitSpace"
    /\ dec.stats_.durationRejections = 1
    /\ dec.stats_.truncatedFrames = 1

\* A feed step of a valid decoder in state s with a timing-valid change.
ValidFeedIn(s) ==
    /\ call'.op = "feed"
    /\ dec.valid_
    /\ dec.state_ = s
    /\ ~ClaimTimingInvalid(dec.config_, call'.arg)

C25_Step ==
    ValidFeedIn("Idle") =>
        IF ClaimPreambleMark(dec.config_, call'.arg)
        THEN dec' = [dec EXCEPT !.state_ = "WaitSpace"]
        ELSE dec' = dec

\* C25: in state Idle, a timing-valid feed that is not of the preamble
\* colour with units matching preambleMarkUnits leaves the state, the frame
\* buffer, every other decoder field and all nine counters unchanged; a
\* timing-valid preamble mark moves Idle to WaitSpace without changing any
\* counter.
C25_IdleIgnores == [][C25_Step]_vars

\* A symbol mark of the preamble colour, too short for a preamble mark, is
\* ignored by an idle decoder that has counted a rejection before.
C25_Witness ==
    /\ call.op = "feed"
    /\ call.state = "Idle"
    /\ call.arg.level = dec.config_.preambleColor
    /\ call.arg.duration = 5 * dec.config_.unitDurationMicros
    /\ ~ClaimPreambleMark(dec.config_, call.arg)
    /\ dec.state_ = "Idle"
    /\ dec.stats_.markRejections = 1
    /\ sc.fed = 2

\* The preamble mark at the far end of its tolerance arms an idle decoder.
C25_WitnessArmed ==
    /\ call.op = "feed"
    /\ call.state = "Idle"
    /\ call.arg.duration > dec.config_.preambleMarkUnits * dec.config_.unitDurationMicros
    /\ dec.state_ = "WaitSpace"
    /\ dec.stats_ = ZeroStats

\* The decoder as startFrame() leaves it.
FrameStarted(d) ==
    /\ d.state_ = "ReadMark"
    /\ d.frameActive_
    /\ d.frameBuffer_ = <<>>
    /\ d.currentByte_ = 0
    /\ d.bitsFilled_ = 0
    /\ ~d.payloadLengthKnown_

C26_Step ==
    ValidFeedIn("WaitSpace") =>
        LET c == dec.config_
            ch == call'.arg
        IN  /\ CountersKeptBut({})
            /\ IF ch.level = "Off" /\ ClaimMatches(c, ch, c.preambleSpaceUnits)
               THEN FrameStarted(dec')
               ELSE IF ClaimPreambleMark(c, ch)
               THEN dec' = dec
               ELSE dec'.state_ = "Idle" /\ ~dec'.frameActive_

\* C26: in state WaitSpace, a timing-valid Off pulse whose units match
\* preambleSpaceUnits starts a frame (empty buffer, frameActive true) and
\* moves to ReadMark; otherwise a timing-valid preamble mark keeps the state
\* WaitSpace; any other timing-valid input moves to Idle; none of the three
\* changes any counter.
C26_WaitSpace == [][C26_Step]_vars

\* An Off pulse too long for the preamble space sends WaitSpace to Idle.
C26_Witness ==
    /\ call.op = "feed"
    /\ call.state = "WaitSpace"
    /\ call.arg.level = "Off"
    /\ call.arg.duration = 40 * dec.config_.unitDurationMicros
    /\ dec.state_ = "Idle"
    /\ dec.stats_ = ZeroStats

C27_Step ==
    ValidFeedIn("ReadMark") =>
        LET c == dec.config_
            ch == call'.arg
        IN  IF ch.level \in {"Red", "Green", "Blue", "White"}
               /\ ClaimMatches(c, ch, c.symbolMarkUnits)
            THEN /\ dec' = [dec EXCEPT !.pendingSymbol_ = colorToSymbol(ch.level).symbol,
                                       !.state_ = "ReadSpace"]
                 /\ symbolToColor(dec'.pendingSymbol_) = ch.level
            ELSE /\ CounterStep("markRejections", 1)
                 /\ CountersKeptBut({"markRejections", "truncatedFrames"})
                 /\ AbortedBy(ch)

\* C27: in state ReadMark, a timing-valid pulse of level Red, Green, Blue
\* or White whose units match symbolMarkUnits stores that colour's symbol
\* as the pending symbol and moves to ReadSpace without changing any
\* counter; any other timing-valid input (an Off pulse, or a mark of
\* non-matching length) increments markRejections by exactly 1, aborts the
\* frame, and leaves the state WaitSpace if the input is itself a preamble
\* mark, otherwise Idle.
C27_ReadMark == [][C27_Step]_vars

\* A preamble mark where a symbol mark is due: rejected, and re-armed.
C27_Witness ==
    /\ call.op = "feed"
    /\ call.state = "ReadMark"
    /\ call.arg.level = dec.config_.preambleColor
    /\ call.arg.level # "Off"
    /\ ClaimPreambleMark(dec.config_, call.arg)
    /\ dec.state_ = "WaitSpace"
    /\ dec.stats_.markRejections = 1
    /\ dec.stats_.truncatedFrames = 1
    /\ dec.stats_.durationRejections = 0

\* A symbol mark one unit longer than nominal is taken as its symbol.
C27_WitnessAccepted ==
    /\ call.op = "feed"
    /\ call.state = "ReadMark"
    /\ call.arg.level = "Blue"
    /\ call.arg.duration =
         (dec.config_.symbolMarkUnits + 1) * dec.config_.unitDurationMicros
    /\ dec.state_ = "ReadSpace"
    /\ symbolToColor(dec.pendingSymbol_) = "Blue"
    /\ sc.fed = 1

\* The pending symbol joined to the byte in progress.
Integrated(d) == (d.currentByte_ * 4 + d.pendingSymbol_) % 256

\* The pending symbol is integrated by the step: a byte in progress gains
\* two bits; a completed byte is appended and the frame goes on in
\* ReadMark, or the frame ends there, finalized or aborted.
SymbolIntegrated ==
    /\ CounterStep("durationRejections", 0)
    /\ CounterStep("markRejections", 0)
    /\ IF dec.bitsFilled_ < 6
       THEN dec' = [dec EXCEPT !.currentByte_ = Integrated(dec),
                               !.bitsFilled_ = dec.bitsFilled_ + 2,
                               !.state_ = "ReadMark"]
       ELSE \/ /\ dec'.state_ = "ReadMark"
               /\ dec'.frameActive_
               /\ dec'.frameBuffer_ = Append(dec.frameBuffer_, Integrated(dec))
               /\ dec'.bitsFilled_ = 0
               /\ CountersKeptBut({})
            \/ /\ dec'.state_ = "Idle"
               /\ ~dec'.frameActive_
               /\ dec'.frameBuffer_ = <<>>

C28_Step ==
    ValidFeedIn("ReadSpace") =>
        LET c == dec.config_
            ch == call'.arg
            units == NearestUnits(ch.duration, c.unitDurationMicros)
        IN  IF ch.level = "Off"
               /\ (ClaimMatches(c, ch, c.separatorUnits) \/ units >= c.separatorUnits)
            THEN SymbolIntegrated
            ELSE /\ CounterStep("durationRejections", 1)
                 /\ CountersKeptBut({"durationRejections", "truncatedFrames"})
                 /\ AbortedBy(ch)

\* C28: in state ReadSpace, a timing-valid Off pulse is accepted (its
\* pending symbol is integrated and the state returns to ReadMark unless
\* the frame finalized or aborted) whenever its units match separatorUnits
\* or are >= separatorUnits, however long it is; only a timing-valid Off
\* pulse that is shorter than separatorUnits and does not match it, or any
\* non-Off pulse, is rejected, incrementing durationRejections by exactly 1
\* and aborting the frame.
C28_ReadSpace == [][C28_Step]_vars

\* A separator of 40 units after the last symbol: the frame is delivered.
C28_Witness ==
    /\ call.op = "feed"
    /\ call.state = "ReadSpace"
    /\ call.arg = [level |-> "Off", duration |-> 40 * dec.config_.unitDurationMicros]
    /\ dec.state_ = "Idle"
    /\ dec.stats_.framesDecoded = 1
    /\ dec.stats_.durationRejections = 0

\* A separator of one unit where three are due is rejected.
C28_WitnessShort ==
    /\ call.op = "feed"
    /\ call.state = "ReadSpace"
    /\ call.arg = [level |-> "Off", duration |-> dec.config_.unitDurationMicros]
    /\ dec.config_.separatorUnits = 3
    /\ dec.state_ = "Idle"
    /\ dec.stats_.durationRejections = 1
    /\ dec.stats_.truncatedFrames = 1

-----------------------------------------------------------------------------
(* Symbol integration: a decoder that has started a frame is given, by      *)
(* handleSymbol, the symbols the encoder makes of some bytes, in the order  *)
(* the encoder emits them.                                                  *)

MaxSymbolBytes == 2

\* The first byte takes every value; the bytes after it a few.
SymbolByteSeqs ==
    {<<b>> \o t : b \in 0..255, t \in SeqsUpTo({0, 27, 255}, MaxSymbolBytes - 1)}

\* The symbols Encoder::encode emits for a byte sequence: shifts 6, 4, 2, 0
\* of each byte.
SymbolsEmitted(bytes) ==
    [j \in 1..(4 * Len(bytes)) |->
        symbolAt(bytes[((j - 1) \div 4) + 1], 6 - 2 * ((j - 1) % 4))]

SY_Init ==
    \E bytes \in SymbolByteSeqs :
        /\ enc = Encoder_configure(DefaultConfig)
        /\ dec = startFrame(Decoder_new("cb", DefaultConfig))
        /\ out = <<>>
        /\ ret = TRUE
        /\ wire = <<>>
        /\ call = NoCall
        /\ sc = [bytes |-> bytes, symbols |-> <<>>]

SY_Symbol ==
    /\ Len(sc.symbols) < 4 * Len(sc.bytes)
    /\ LET s == SymbolsEmitted(sc.bytes)[Len(sc.symbols) + 1]
       IN  /\ dec' = handleSymbol(dec, s)
           /\ call' = CallRec("handleSymbol", s)
           /\ sc' = [sc EXCEPT !.symbols = Append(@, s)]
    /\ UNCHANGED <<enc, out, ret, wire>>

SY_Next == SY_Symbol

SpecSymbols == SY_Init /\ [][SY_Next]_vars

\* The byte of four symbols, most significant pair first.
ByteOfSymbols(s, q) ==
    s[4 * q - 3] * 64 + s[4 * q - 2] * 16 + s[4 * q - 1] * 4 + s[4 * q]

\* C29: within a frame, every four consecutively accepted symbols s0, s1,
\* s2, s3 append exactly one byte s0*64 + s1*16 + s2*4 + s3 to the frame
\* buffer and nothing is appended after one, two or three symbols; this
\* inverts the encoder's shift 6, 4, 2, 0 symbol order for every byte value
\* 0..255.
C29_SymbolIntegration ==
    LET n == Len(sc.symbols)
    IN  /\ \A j \in 1..n : sc.symbols[j] \in 0..3
        /\ Len(dec.frameBuffer_) = n \div 4
        /\ \A q \in 1..(n \div 4) :
             /\ dec.frameBuffer_[q] = ByteOfSymbols(sc.symbols, q)
             /\ dec.frameBuffer_[q] = sc.bytes[q]
        /\ dec.bitsFilled_ = 2 * (n % 4)
        /\ dec.frameActive_

C29_Witness ==
    /\ sc.bytes = <<228, 27>>
    /\ sc.symbols = <<3, 2, 1, 0, 0, 1, 2>>
    /\ dec.frameBuffer_ = <<228>>
    /\ dec.bitsFilled_ = 6

-----------------------------------------------------------------------------
(* Frames that fail several checks at once: a fresh decoder is fed, pulse   *)
(* by pulse, a complete frame of correct length in which any of the magic,  *)
(* the version, the ender and the CRC are wrong.                            *)

FinalChecks == <<"magic", "version", "ender", "crc">>

\* The frame of payload P with the fields named in S made wrong; m is the
\* mask of inverted bits and i the byte of the field that takes it.
Damaged(c, P, S, m, i) ==
    LET L == Len(P)
        base == serializeFrame(c, P, L)
    IN  [j \in 1..(9 + L) |->
            IF j = 1 + i /\ "magic" \in S THEN XorByte(base[j], m)
            ELSE IF j = 3 /\ "version" \in S THEN XorByte(base[j], m)
            ELSE IF j = 6 + i /\ "crc" \in S THEN XorByte(base[j], m)
            ELSE IF j = 8 + L + i /\ "ender" \in S THEN XorByte(base[j], m)
            ELSE base[j]]

FN_Init ==
    \E c \in ValidConfigs, P \in WirePayloads :
        /\ Len(P) <= c.maxPayloadBytes
        /\ \E S \in SUBSET {"magic", "version", "ender", "crc"},
              m \in FlipMasks, i \in 0..1 :
            LET frame == Damaged(c, P, S, m, i)
            IN  /\ wire = WirePulses(c, frame)
                /\ sc = [wrong |-> S, frame |-> frame, fed |-> 0,
                         pulses |-> Len(WirePulses(c, frame))]
        /\ enc = Encoder_configure(c)
        /\ dec = Decoder_new("cb", c)
        /\ out = <<>>
        /\ ret = validateConfig(c)
        /\ call = NoCall

FN_Feed ==
    /\ wire # <<>>
    /\ dec' = feed(dec, Head(wire))
    /\ wire' = Tail(wire)
    /\ call' = CallRec("feed", Head(wire))
    /\ sc' = [sc EXCEPT !.fed = @ + 1]
    /\ UNCHANGED <<enc, out, ret>>

FN_Next == FN_Feed

SpecFinalize == FN_Init /\ [][FN_Next]_vars

\* The counter of each final check.
CheckCounter ==
    [magic |-> "magicMismatches", version |-> "headerRejects",
     ender |-> "enderMismatches", crc |-> "crcFailures"]

\* The first check, in the order magic, version, ender, CRC, that the frame
\* on the wire fails.
FirstFailing ==
    FinalChecks[CHOOSE k \in 1..4 :
                    /\ FinalChecks[k] \in sc.wrong
                    /\ \A j \in 1..(k - 1) : FinalChecks[j] \notin sc.wrong]

\* The frame is complete once its last separator, pulse 8 * (9 + L) + 2,
\* has been fed.
FrameComplete == sc.fed >= 8 * Len(sc.frame) + 2

\* C30: when a complete frame of 9+L bytes, L <= maxPayloadBytes, fails
\* more than one of the checks, exactly one of magicMismatches,
\* headerRejects, enderMismatches and crcFailures is incremented, by 1: the
\* counter of the first failing check in the order magic, version, ender,
\* CRC; the later checks do not touch their counters.
C30_CheckOrder ==
    sc.wrong # {} =>
        /\ \A k \in 1..4 :
             dec.stats_[CheckCounter[FinalChecks[k]]] =
                 IF FrameComplete /\ FinalChecks[k] = FirstFailing THEN 1 ELSE 0
        /\ dec.stats_.framesDecoded = 0
        /\ dec.stats_.lengthViolations = 0
        /\ dec.delivered = <<>>

\* Wrong ender and wrong CRC together: only enderMismatches is counted.
C30_Witness ==
    /\ wire = <<>>
    /\ sc.wrong = {"ender", "crc"}
    /\ dec.stats_.enderMismatches = 1
    /\ dec.stats_.crcFailures = 0
    /\ dec.stats_.truncatedFrames = 1

\* All four wrong: only magicMismatches is counted.
C30_WitnessAll ==
    /\ wire = <<>>
    /\ sc.wrong = {"magic", "version", "ender", "crc"}
    /\ dec.stats_.magicMismatches = 1
    /\ dec.stats_.headerRejects = 0
    /\ dec.stats_.enderMismatches = 0
    /\ dec.stats_.crcFailures = 0

-----------------------------------------------------------------------------
(* The symbol codec on its own: a symbol argument (a uint8_t) and a light   *)
(* level are chosen; the symbol is turned into its colour and back, and the *)
(* level into its symbol and back.                                          *)

CD_Init ==
    \E s \in 0..255, l \in LightLevels :
        /\ enc = Encoder_configure(DefaultConfig)
        /\ dec = Decoder_new("cb", DefaultConfig)
        /\ out = <<>>
        /\ ret = TRUE
        /\ wire = <<>>
        /\ call = NoCall
        /\ sc = [symbol |-> s, level |-> l, done |-> FALSE,
                 color |-> "Off", back |-> [ok |-> FALSE, symbol |-> 0],
                 decoded |-> [ok |-> FALSE, symbol |-> 0], again |-> "Off"]

CD_Convert ==
    /\ ~sc.done
    /\ LET color == symbolToColor(sc.symbol)
           decoded == colorToSymbol(sc.level)
       IN  sc' = [sc EXCEPT !.done = TRUE,
                            !.color = color,
                            !.back = colorToSymbol(color),
                            !.decoded = decoded,
                            !.again = IF decoded.ok
                                      THEN symbolToColor(decoded.symbol)
                                      ELSE "Off"]
    /\ call' = CallRec("symbolToColor", sc.symbol)
    /\ UNCHANGED <<enc, dec, out, ret, wire>>

CD_Next == CD_Convert

SpecCodec == CD_Init /\ [][CD_Next]_vars

\* The colours of the symbols 0, 1, 2, 3.
ClaimedColors == <<"Red", "Green", "Blue", "White">>

\* C33: symbolToColor maps 0, 1, 2, 3 to Red, Green, Blue, White;
\* colorToSymbol(symbolToColor(s)) = s for every s in 0..3 and
\* symbolToColor(colorToSymbol(c)) = c for every c in {Red, Green, Blue,
\* White}; colorToSymbol(Off) fails and yields no symbol.
C33_CodecInverse ==
    sc.done =>
        /\ sc.symbol \in 0..3 =>
             /\ sc.color = ClaimedColors[sc.symbol + 1]
             /\ sc.back = [ok |-> TRUE, symbol |-> sc.symbol]
        /\ sc.level \in {"Red", "Green", "Blue", "White"} =>
             /\ sc.decoded.ok
             /\ sc.decoded.symbol \in 0..3
             /\ sc.again = sc.level
        /\ sc.level = "Off" => ~sc.decoded.ok

C33_Witness ==
    /\ sc.done
    /\ sc.symbol = 2
    /\ sc.color = "Blue"
    /\ sc.back = [ok |-> TRUE, symbol |-> 2]
    /\ sc.level = "Off"
    /\ ~sc.decoded.ok

-----------------------------------------------------------------------------
(* StaticVector on its own: a buffer of some capacity, on which push_back,  *)
(* append and clear are called in any order.                                *)

MaxVectorOps == 3

VectorCapacities == 1..3

VectorValues == {7, 9}

\* The arrays append is given; its count is at most their length.
VectorData == SeqsUpTo(VectorValues, 4)

SV_Init ==
    \E cap \in VectorCapacities :
        /\ enc = Encoder_configure(DefaultConfig)
        /\ dec = Decoder_new("cb", DefaultConfig)
        /\ out = <<>>
        /\ ret = TRUE
        /\ wire = <<>>
        /\ call = NoCall
        /\ sc = [capacity |-> cap, v |-> <<>>, before |-> <<>>, steps |-> 0]

SV_PushBack ==
    /\ sc.steps < MaxVectorOps
    /\ \E value \in VectorValues :
        LET r == push_back(sc.v, value, sc.capacity)
        IN  /\ sc' = [sc EXCEPT !.v = r.v, !.before = sc.v, !.steps = @ + 1]
            /\ ret' = r.ok
            /\ call' = CallRec("push_back", <<value>>)
    /\ UNCHANGED <<enc, dec, out, wire>>

SV_Append ==
    /\ sc.steps < MaxVectorOps
    /\ \E data \in VectorData :
        \E count \in 0..Len(data) :
            LET r == append(sc.v, data, count, sc.capacity)
            IN  /\ sc' = [sc EXCEPT !.v = r.v, !.before = sc.v, !.steps = @ + 1]
                /\ ret' = r.ok
                /\ call' = CallRec("append", SubSeq(data, 1, count))
    /\ UNCHANGED <<enc, dec, out, wire>>

SV_Clear ==
    /\ sc.steps < MaxVectorOps
    /\ sc' = [sc EXCEPT !.v = clear(sc.v), !.before = sc.v, !.steps = @ + 1]
    /\ call' = CallRec("clear", <<>>)
    /\ UNCHANGED <<enc, dec, out, ret, wire>>

SV_Next ==
    \/ SV_PushBack
    \/ SV_Append
    \/ SV_Clear

SpecVector == SV_Init /\ [][SV_Next]_vars

\* C34: for a StaticVector of capacity C, after any sequence of push_back,
\* append and clear calls, 0 <= size <= C; push_back on a full buffer and
\* append of a count that would exceed C return false and leave the size
\* and the stored elements unchanged; a successful push_back or append adds
\* the elements at the end in order; clear sets the size to 0.
C34_BoundedBuffer ==
    LET C == sc.capacity
        n == Len(sc.before)
    IN  /\ Len(sc.v) \in 0..C
        /\ call.op \in {"push_back", "append"} =>
             IF n + Len(call.arg) > C
             THEN ~ret /\ sc.v = sc.before
             ELSE /\ ret
                  /\ Len(sc.v) = n + Len(call.arg)
                  /\ \A i \in 1..n : sc.v[i] = sc.before[i]
                  /\ \A i \in 1..Len(call.arg) : sc.v[n + i] = call.arg[i]
        /\ call.op = "clear" => Len(sc.v) = 0

\* An append of two elements to a buffer with room for one.
C34_Witness ==
    /\ call.op = "append"
    /\ call.arg = <<7, 9>>
    /\ sc.capacity = 3
    /\ sc.before = <<9, 9>>
    /\ sc.v = <<9, 9>>
    /\ ~ret

-----------------------------------------------------------------------------
(* The decoder over its life: frames that are valid, damaged in one field   *)
(* or wrong in their length field are sent one after another and fed pulse  *)
(* by pulse; at any point another change is fed, or reset or configure is   *)
(* called, and the rest of the frame on the wire is lost.  The run counts   *)
(* the frames started and the frames dropped by reset and configure.        *)

MaxLifeFrames == 2

MaxLifeCalls == 1

LifeConfigs == {LongSeparatorConfig}

LifePayloads == {<<>>, <<27>>}

\* The serialized frame with its length field set to n.
WithLength(frame, n) ==
    [frame EXCEPT ![4] = n \div 256, ![5] = n % 256]

\* The frames sent under configuration c: valid ones, ones with the magic,
\* the version, the ender or the CRC wrong, and ones whose length field is
\* one more or one less than the payload has, or more than maxPayloadBytes.
LifeFrames(c) ==
    LET valid == {serializeFrame(c, P, Len(P)) :
                     P \in {Q \in LifePayloads : Len(Q) <= c.maxPayloadBytes}}
        damaged == {Damaged(c, <<27>>, {k}, 255, 0) :
                       k \in {"magic", "version", "ender", "crc"}}
        short == WithLength(serializeFrame(c, <<>>, 0), 1)
        long == WithLength(serializeFrame(c, <<27>>, 1), 0)
        over == WithLength(serializeFrame(c, <<>>, 0), c.maxPayloadBytes + 1)
    IN  valid \cup damaged \cup {short, long, over}

\* Changes fed in place of the next pulse of a frame: of no duration or of
\* a negative one, off the unit grid, as long as a symbol mark (and as a
\* separator), and as long as the preamble mark.
LifeChanges(c) ==
    LET u == c.unitDurationMicros
    IN  {[level |-> "Off", duration |-> d] : d \in {0 - u, 0}}
        \cup {[level |-> l, duration |-> d] :
                 l \in {"Off", c.preambleColor},
                 d \in {u \div 2, c.symbolMarkUnits * u,
                        c.preambleMarkUnits * u}}

LifeConfigChoices ==
    LifeConfigs \cup {[DefaultConfig EXCEPT !.unitDurationMicros = 0]}

\* 1 if the step from d to e starts a frame, else 0.
FrameStart(d, e) ==
    IF d.state_ = "WaitSpace" /\ e.state_ = "ReadMark" THEN 1 ELSE 0

LF_Init ==
    \E c \in LifeConfigs :
        /\ enc = Encoder_configure(c)
        /\ dec = Decoder_new("cb", c)
        /\ out = <<>>
        /\ ret = validateConfig(c)
        /\ wire = <<>>
        /\ call = NoCall
        /\ sc = [frames |-> 0, calls |-> 0, started |-> 0, dropped |-> 0]

\* The sender puts the pulses of a frame on the wire.
LF_Send ==
    /\ wire = <<>>
    /\ sc.frames < MaxLifeFrames
    /\ \E frame \in LifeFrames(enc.config_) :
        /\ wire' = WirePulses(enc.config_, frame)
        /\ call' = CallRec("send", frame)
    /\ sc' = [sc EXCEPT !.frames = @ + 1]
    /\ UNCHANGED <<enc, dec, out, ret>>

LF_FeedWire ==
    /\ wire # <<>>
    /\ dec' = feed(dec, Head(wire))
    /\ wire' = Tail(wire)
    /\ call' = CallRec("feed", Head(wire))
    /\ sc' = [sc EXCEPT !.started = @ + FrameStart(dec, dec')]
    /\ UNCHANGED <<enc, out, ret>>

LF_FeedAny ==
    /\ sc.calls < MaxLifeCalls
    /\ \E ch \in LifeChanges(enc.config_) :
        /\ dec' = feed(dec, ch)
        /\ call' = CallRec("feed", ch)
    /\ wire' = <<>>
    /\ sc' = [sc EXCEPT !.calls = @ + 1,
                        !.started = @ + FrameStart(dec, dec')]
    /\ UNCHANGED <<enc, out, ret>>

LF_Reset ==
    /\ sc.calls < MaxLifeCalls
    /\ dec' = reset(dec)
    /\ call' = CallRec("reset", <<>>)
    /\ wire' = <<>>
    /\ sc' = [sc EXCEPT !.calls = @ + 1,
                        !.dropped = @ + IF dec.frameActive_ THEN 1 ELSE 0]
    /\ UNCHANGED <<enc, out, ret>>

LF_Configure ==
    /\ sc.calls < MaxLifeCalls
    /\ \E c \in LifeConfigChoices :
        /\ dec' = configure(dec, c)
        /\ ret' = dec'.valid_
        /\ call' = CallRec("configure", c)
    /\ wire' = <<>>
    /\ sc' = [sc EXCEPT !.calls = @ + 1,
                        !.dropped = @ + IF dec.frameActive_ THEN 1 ELSE 0]
    /\ UNCHANGED <<enc, out>>

LF_Next ==
    \/ LF_Send
    \/ LF_FeedWire
    \/ LF_FeedAny
    \/ LF_Reset
    \/ LF_Configure

SpecLife == LF_Init /\ [][LF_Next]_vars


\* The frame that the step completes: the buffered bytes and the byte the
\* pending symbol fills.
CompletedFrame == Append(dec.frameBuffer_, Integrated(dec))

\* The step is a feed that completes a frame passing all checks: a
\* separator accepted in ReadSpace fills the last byte of a frame with the
\* configured magic, version and ender, a length within maxPayloadBytes
\* that the frame has, and the CRC of its payload.
CompletesFrame ==
    /\ ValidFeedIn("ReadSpace")
    /\ call'.arg.level = "Off"
    /\ \/ ClaimMatches(dec.config_, call'.arg, dec.config_.separatorUnits)
       \/ NearestUnits(call'.arg.duration, dec.config_.unitDurationMicros)
            >= dec.config_.separatorUnits
    /\ dec.bitsFilled_ = 6
    /\ WellFormed(dec.config_, CompletedFrame)

C31_Step ==
    /\ CompletesFrame =>
        /\ dec'.delivered =
              Append(dec.delivered,
                     [cb |-> "cb", data |-> PayloadOf(CompletedFrame)])
        /\ CounterStep("framesDecoded", 1)
        /\ CountersKeptBut({"framesDecoded"})
        /\ dec'.state_ = "Idle"
        /\ dec'.frameBuffer_ = <<>>
        /\ ~dec'.frameActive_
    /\ dec'.stats_.framesDecoded # dec.stats_.framesDecoded => CompletesFrame

\* C31: the feed that completes a frame passing all checks invokes the
\* callback once with the L payload bytes, increments framesDecoded by
\* exactly 1, changes no other counter (in particular not truncatedFrames),
\* and leaves the decoder in Idle with an empty frame buffer and no active
\* frame; no other step increments framesDecoded.
C31_SuccessfulFinalization == [][C31_Step]_vars

\* A second frame, with one payload byte, has completed after a first frame
\* was truncated: the callback got that byte once, and truncatedFrames kept
\* its value.
C31_Witness ==
    /\ call.op = "feed"
    /\ call.state = "ReadSpace"
    /\ dec.state_ = "Idle"
    /\ dec.delivered = <<[cb |-> "cb", data |-> <<27>>]>>
    /\ dec.stats_.framesDecoded = 1
    /\ dec.stats_.truncatedFrames = 1
    /\ sc.frames = 2
    /\ wire = <<>>


\* No frame is in progress in d and nothing of one is left.
FrameCleared(d) ==
    /\ ~d.frameActive_
    /\ d.frameBuffer_ = <<>>
    /\ d.currentByte_ = 0
    /\ d.bitsFilled_ = 0
    /\ d.pendingSymbol_ = 0
    /\ ~d.payloadLengthKnown_

\* The step is a feed that moves one of the eight rejection counters.
RejectingFeed ==
    /\ call'.op = "feed"
    /\ \E n \in RejectionCounters : dec'.stats_[n] # dec.stats_[n]

C32_Step ==
    RejectingFeed =>
        /\ FrameCleared(dec')
        /\ dec'.state_ \in {"Idle", "WaitSpace"}
        /\ dec'.state_ = "WaitSpace" =>
              ClaimPreambleMark(dec.config_, call'.arg)

\* C32: after every feed call that increments any of the eight rejection
\* counters, the decoder has no active frame, an empty frame buffer, a
\* zeroed byte accumulator and pending symbol, an unknown payload length,
\* and its state is Idle or WaitSpace (WaitSpace only if that same input was
\* a preamble-colour pulse whose units match preambleMarkUnits).
C32_RecoveryAfterRejection == [][C32_Step]_vars

\* After one frame was decoded, a preamble mark fed in the middle of the
\* next frame was rejected, truncated that frame and armed the decoder.
C32_Witness ==
    /\ call.op = "feed"
    /\ call.active
    /\ call.arg.level = dec.config_.preambleColor
    /\ dec.state_ = "WaitSpace"
    /\ FrameCleared(dec)
    /\ dec.stats_.framesDecoded = 1
    /\ dec.stats_.truncatedFrames = 1
    /\ sc.calls = 1


\* The state and the frame of d agree: a frame is active exactly in
\* ReadMark and ReadSpace, and outside a frame nothing of one is kept.
StateFrameAgree(d) ==
    /\ d.frameActive_ <=> d.state_ \in {"ReadMark", "ReadSpace"}
    /\ d.state_ \in {"Idle", "WaitSpace"} =>
          /\ d.frameBuffer_ = <<>>
          /\ d.bitsFilled_ = 0
          /\ d.currentByte_ = 0
          /\ d.pendingSymbol_ = 0
          /\ ~d.payloadLengthKnown_
          /\ d.expectedPayloadLength_ = 0

\* C35: after every public call (feed, reset, configure), frameActive is
\* true if and only if the state is ReadMark or ReadSpace; and whenever the
\* state is Idle or WaitSpace the frame buffer is empty, bitsFilled = 0,
\* currentByte = 0, pendingSymbol = 0, payloadLengthKnown is false and
\* expectedPayloadLength = 0.
C35_StateFrameInvariant == StateFrameAgree(dec)

\* configure() was called in the middle of a frame whose length was known
\* and rejected the configuration: the frame is gone all the same.
C35_Witness ==
    /\ call.op = "configure"
    /\ call.active
    /\ ~dec.valid_
    /\ dec.state_ = "Idle"
    /\ StateFrameAgree(dec)
    /\ sc.dropped = 1


\* The frame buffer of d and what d knows of the payload length agree.
FrameBufferAgrees(d) ==
    LET buf == d.frameBuffer_
        max == d.config_.maxPayloadBytes
    IN  /\ d.bitsFilled_ \in {0, 2, 4, 6}
        /\ d.payloadLengthKnown_ <=> Len(buf) >= 5
        /\ d.payloadLengthKnown_ =>
              /\ d.expectedPayloadLength_ = buf[4] * 256 + buf[5]
              /\ d.expectedPayloadLength_ <= max
              /\ Len(buf) < 9 + d.expectedPayloadLength_
        /\ Len(buf) <= 8 + max
        /\ Len(buf) < FrameCapacity

\* The step is a feed that fills a byte of the frame: a separator accepted
\* in ReadSpace with six bits of the byte in place.
CompletesByte ==
    /\ ValidFeedIn("ReadSpace")
    /\ call'.arg.level = "Off"
    /\ \/ ClaimMatches(dec.config_, call'.arg, dec.config_.separatorUnits)
       \/ NearestUnits(call'.arg.duration, dec.config_.unitDurationMicros)
            >= dec.config_.separatorUnits
    /\ dec.bitsFilled_ = 6

\* What a filled byte does: it always fits the buffer; the fifth byte makes
\* the length known and rejects it if too large; a later byte ends the
\* frame exactly when the buffer has 9 + expectedPayloadLength bytes, and
\* then no check of the buffer size or of the length fails: the length is
\* not rejected again, headerRejects counts only a wrong version, and
\* truncatedFrames counts the frame once at most.
ByteEffect ==
    LET full == CompletedFrame
        n == Len(full)
        max == dec.config_.maxPayloadBytes
    IN  /\ n <= FrameCapacity
        /\ n <= 9 + max
        /\ n < 5 => /\ dec'.frameActive_
                    /\ dec'.frameBuffer_ = full
                    /\ dec'.stats_ = dec.stats_
        /\ n = 5 =>
              IF full[4] * 256 + full[5] > max
              THEN /\ CounterStep("lengthViolations", 1)
                   /\ CounterStep("truncatedFrames", 1)
                   /\ CountersKeptBut({"lengthViolations", "truncatedFrames"})
                   /\ ~dec'.frameActive_
              ELSE /\ dec'.frameActive_
                   /\ dec'.frameBuffer_ = full
                   /\ dec'.stats_ = dec.stats_
        /\ n > 5 =>
              /\ dec.payloadLengthKnown_
              /\ n <= 9 + dec.expectedPayloadLength_
              /\ IF n = 9 + dec.expectedPayloadLength_
                 THEN /\ ~dec'.frameActive_
                      /\ CounterStep("lengthViolations", 0)
                      /\ dec'.stats_.headerRejects # dec.stats_.headerRejects
                            => full[3] # dec.config_.version
                      /\ dec'.stats_.truncatedFrames
                            <= dec.stats_.truncatedFrames + 1
                      /\ dec'.stats_.truncatedFrames = dec.stats_.truncatedFrames
                            <=> dec'.stats_.framesDecoded
                                  = dec.stats_.framesDecoded + 1
                 ELSE /\ dec'.frameActive_
                      /\ dec'.frameBuffer_ = full
                      /\ dec'.stats_ = dec.stats_

C36_Step ==
    /\ dec'.valid_ => FrameBufferAgrees(dec')
    /\ CompletesByte => ByteEffect

\* C36: under a valid configuration, after every feed call bitsFilled is
\* one of 0, 2, 4, 6; payloadLengthKnown holds if and only if the frame
\* buffer holds at least 5 bytes; when it holds, expectedPayloadLength =
\* bytes[3]*256 + bytes[4] <= maxPayloadBytes and the buffer size is
\* strictly less than 9 + expectedPayloadLength; the buffer never exceeds
\* 8 + maxPayloadBytes bytes, the frame-buffer overflow abort is never
\* taken, and finalizeFrame is only ever entered with buffer size exactly
\* 9 + expectedPayloadLength (its too-short, re-parsed-length and
\* size-mismatch checks never fail).
C36_FrameBufferInvariant == [][C36_Step]_vars

\* The frame buffer is as full as it gets, 8 + maxPayloadBytes bytes of a
\* frame whose length is known, and the last byte is two bits from done.
C36_Witness ==
    /\ call.op = "feed"
    /\ dec.valid_
    /\ dec.payloadLengthKnown_
    /\ dec.expectedPayloadLength_ = dec.config_.maxPayloadBytes
    /\ Len(dec.frameBuffer_) = 8 + dec.config_.maxPayloadBytes
    /\ dec.bitsFilled_ = 6
    /\ dec.state_ = "ReadSpace"


\* How far the step moves counter n.
Delta(n) == dec'.stats_[n] - dec.stats_[n]

\* The counters whose increment goes with the truncation of the frame.
FrameRejections ==
    {"lengthViolations", "magicMismatches", "headerRejects",
     "enderMismatches", "crcFailures", "markRejections"}

C37_Step ==
    call'.op = "feed" =>
        /\ Delta("truncatedFrames") \in {0, 1}
        /\ \A n \in CounterNames : Delta(n) \in {0, 1}
        /\ \A n, m \in CounterNames \ {"truncatedFrames"} :
              Delta(n) = 1 /\ Delta(m) = 1 => n = m
        /\ Delta("framesDecoded") = 1 =>
              \A n \in RejectionCounters : Delta(n) = 0
        /\ \A n \in FrameRejections :
              Delta(n) = 1 => Delta("truncatedFrames") = 1
        /\ Delta("durationRejections") = 1 =>
              (Delta("truncatedFrames") = 1 <=> dec.frameActive_)

\* C37: a single feed call increases truncatedFrames by at most 1 and
\* increases at most one of the other eight counters, by exactly 1; a feed
\* that increments framesDecoded changes no other counter; a feed that
\* increments lengthViolations, magicMismatches, headerRejects,
\* enderMismatches, crcFailures or markRejections also increments
\* truncatedFrames by exactly 1; a feed that increments durationRejections
\* increments truncatedFrames by 1 exactly when a frame was active before
\* the call.
C37_CounterDeltas == [][C37_Step]_vars

\* One feed has moved crcFailures and another durationRejections and no
\* feed any other rejection counter, and truncatedFrames stands at 2: both
\* moved it, the second inside a frame.
C37_Witness ==
    /\ call.op = "feed"
    /\ call.active
    /\ dec.stats_ = [ZeroStats EXCEPT !.crcFailures = 1,
                                      !.durationRejections = 1,
                                      !.truncatedFrames = 2]


C38_Step ==
    /\ Len(dec'.delivered) = dec'.stats_.framesDecoded
    /\ IF call'.op = "feed"
       THEN \/ dec'.delivered = dec.delivered
            \/ dec'.delivered =
                  Append(dec.delivered,
                         [cb |-> "cb", data |-> PayloadOf(CompletedFrame)])
       ELSE dec'.delivered = dec.delivered

\* C38: with a callback registered for the whole run that does not call
\* into the decoder, after every feed call the total number of callback
\* invocations equals framesDecoded, each feed call invokes the callback
\* at most once, and the order of delivered payloads is the order in which
\* their frames completed.
C38_CallbackAgreement == [][C38_Step]_vars

\* Two frames with different payloads have completed, the one-byte
\* payload first, and the callback got them in that order.
C38_Witness ==
    /\ call.op = "feed"
    /\ dec.stats_.framesDecoded = 2
    /\ dec.delivered = <<[cb |-> "cb", data |-> <<27>>],
                         [cb |-> "cb", data |-> <<>>]>>


C39_Step ==
    (call'.op = "feed" /\ call'.arg.duration <= 0) => dec' = dec

\* C39: a feed whose duration is <= 0, in any decoder state including the
\* middle of a frame, leaves the state, the in-progress frame and all nine
\* counters unchanged (it is not counted in durationRejections and does not
\* abort the frame).
C39_NonPositiveDropped == [][C39_Step]_vars

\* A change of negative duration was fed in the middle of a frame, after
\* its length was known and with a symbol pending: the frame is still in
\* progress and no counter has moved.
C39_Witness ==
    /\ call.op = "feed"
    /\ call.arg.duration < 0
    /\ call.state = "ReadSpace"
    /\ dec.state_ = "ReadSpace"
    /\ dec.frameActive_
    /\ dec.payloadLengthKnown_
    /\ dec.bitsFilled_ = 4
    /\ dec.stats_ = ZeroStats


\* C40: after any sequence of feed, reset and configure calls, the number
\* of frames started (WaitSpace to ReadMark transitions) equals
\* framesDecoded + truncatedFrames + (number of reset/configure calls made
\* while a frame was active) + (1 if a frame is active now, else 0).
C40_FrameAccounting ==
    sc.started = dec.stats_.framesDecoded + dec.stats_.truncatedFrames
                 + sc.dropped + (IF dec.frameActive_ THEN 1 ELSE 0)

\* Two frames were started: the first was dropped by a reset or configure
\* call in its middle, and the second was decoded.
C40_Witness ==
    /\ sc.started = 2
    /\ sc.dropped = 1
    /\ dec.stats_.framesDecoded = 1
    /\ dec.stats_.truncatedFrames = 0
    /\ ~dec.frameActive_
=============================================================================
